---------------------------- MODULE Spec2Model ----------------------------
(***************************************************************************)
(* A model of the token-persistence subsystem of anaconda-anon-usage       *)
(* (anaconda_anon_usage/utils.py and anaconda_anon_usage/tokens.py).       *)
(*                                                                         *)
(* Strings are TLA+ strings, handled character by character with Head,     *)
(* Tail, SubSeq and \o.  The file system is a function from a fixed set of *)
(* absolute paths to nodes.  Randomness (os.urandom) is a counter: every   *)
(* draw yields bytes never drawn before, the idealisation under which the  *)
(* repository's own tests (test_random_token, test_read_chaos) are written.*)
(***************************************************************************)
EXTENDS Naturals, Sequences, FiniteSets, TLC

VARIABLES
    fs,                \* the file system: path -> node
    DEFERRED,          \* utils.DEFERRED: <<must_exist, fpath, token, what>>
    CACHE,             \* utils.CACHE: the set of <<key, value>> pairs
    LOCK,              \* utils.LOCK: the thread that holds it, 0 when free
    READ_CHAOS,        \* utils.READ_CHAOS
    WRITE_CHAOS,       \* utils.WRITE_CHAOS
    DEBUG,             \* utils.DEBUG
    conda_importable,  \* whether "from conda.base.context import context" works
    node,              \* the machine's node id (0: cannot be determined)
    urandom,           \* number of os.urandom draws so far
    phase,             \* "running" | "exited" | "killed"
    sites,             \* the call sites (cache keys) this run exercises
    pc,                \* per thread: where it is in call_if_needed, and its key
    last,              \* history: the last call, if nothing happened since
    written,           \* history: <<fpath, token>> token writes of this process
    returned,          \* history: <<site, value>> returned in this process
    runs,              \* history: executions of the wrapped body, per key
    exitlog,           \* history: the write statuses of the exit hook
    environ,           \* os.environ: variable name -> value, None when unset
    SEARCH_PATH,       \* conda.base.constants.SEARCH_PATH
    now,               \* the clock, in seconds
    called,            \* history: the last call through the cache, if nothing
                       \* happened since
    anaconda_auth,     \* what api_key._module() finds: None when anaconda_auth
                       \* cannot be imported, "" when it holds no API key
    procs,             \* per process of a race: where it is in _saved_token,
                       \* and its local variables
    Context,           \* conda's Context class and context object, as
                       \* patch.py finds and leaves them
    sp_dir             \* site-packages/conda/base as install.py finds and
                       \* leaves it, and the run of the installer

vars == <<fs, DEFERRED, CACHE, LOCK, READ_CHAOS, WRITE_CHAOS, DEBUG,
          conda_importable, node, urandom, phase, sites, pc, last, written,
          returned, runs, exitlog, environ, SEARCH_PATH, now, called,
          anaconda_auth, procs, Context, sp_dir>>

\* the process environment and the history of the calls through the cache
hostvars == <<environ, SEARCH_PATH, now, called, anaconda_auth>>

\* the state of the scenarios with several processes, and of the patched host
extvars == <<procs, Context, sp_dir>>
\* no process races, and the host's context is out of the picture
NoProcs == <<>>
NoContext == [patched |-> "<no context>"]
\* the installer does not run
NoSpDir == [status |-> "<no run>"]

-----------------------------------------------------------------------------
(* Bounds of the model *)

\* os.urandom draws over the whole run
MaxTokens == 2
\* executions of the wrapped body per cache key
MaxRuns == 2
\* threads of one process
NThreads == 2
\* os.urandom draws of a process that assembles token strings
MaxDraws == 4

-----------------------------------------------------------------------------
(* Python values *)

\* v bound to x in F: each value is computed where the code computes it
With(v, F(_)) == F(v)

\* Python's None, kept apart from every string a file can hold
None == "<None>"
\* the outcome of a call that ends in an uncaught exception
Raised == "<ImportError>"

Truthy(v) == v # None /\ v # ""
\* Python's "a or b"
Or(a, b) == IF Truthy(a) THEN a ELSE b

IsSpace(c) == c \in {" ", "\t", "\n", "\r"}

RECURSIVE lstrip(_)
lstrip(s) ==
    IF s = "" THEN ""
    ELSE IF IsSpace(Head(s)) THEN lstrip(Tail(s)) ELSE s

RECURSIVE rstrip(_)
rstrip(s) ==
    IF s = "" THEN ""
    ELSE IF IsSpace(SubSeq(s, Len(s), Len(s)))
         THEN rstrip(SubSeq(s, 1, Len(s) - 1)) ELSE s

\* str.strip()
strip(s) == rstrip(lstrip(s))

\* the longest prefix of s holding no character of stops
RECURSIVE UpTo(_, _)
UpTo(s, stops) ==
    IF s = "" THEN ""
    ELSE IF Head(s) \in stops THEN ""
    ELSE Head(s) \o UpTo(Tail(s), stops)

\* s.splitlines()[0] of a non-empty s
FirstLine(s) == UpTo(s, {"\n", "\r"})

\* s.split(" ", 1): a sequence of one or two strings
split1(s) ==
    With(UpTo(s, {" "}), LAMBDA h :
        IF Len(h) = Len(s) THEN <<s>>
        ELSE <<h, SubSeq(s, Len(h) + 2, Len(s))>>)

\* c in s, for a one-character c
InStr(c, s) == \E i \in 1..Len(s) : SubSeq(s, i, i) = c

RECURSIVE Rep(_, _)
Rep(c, n) == IF n = 0 THEN "" ELSE c \o Rep(c, n - 1)

-----------------------------------------------------------------------------
(* Paths: os.path *)

RECURSIVE LastSlash(_, _)
LastSlash(p, i) ==
    IF i = 0 THEN 0
    ELSE IF SubSeq(p, i, i) = "/" THEN i ELSE LastSlash(p, i - 1)

\* os.path.dirname on absolute paths
dirname(p) ==
    With(LastSlash(p, Len(p)), LAMBDA i :
        IF i <= 1 THEN "/" ELSE SubSeq(p, 1, i - 1))

\* os.path.join
join(a, b) == a \o "/" \o b

-----------------------------------------------------------------------------
(* Program constants *)

MIN_ENTROPY == 128
TOKEN_LENGTH == (MIN_ENTROPY - 1) \div 6 + 1

WRITE_SUCCESS == 0
WRITE_DEFER == 1
WRITE_FAIL == 2

WRITE_NEWLINE == FALSE

\* expanduser("~")
home == "/home"
CONFIG_DIR == "/home/.conda"
ANACONDA_DIR == "/home/.anaconda"
ORG_TOKEN_NAME == "org_token"
MACHINE_TOKEN_NAME == "machine_token"
\* sys.prefix, the environment the process runs in
SysPrefix == "/base"
\* prefixes of environments that may not have been created yet
NewPrefixes == {"/env", "/env2"}
Prefixes == {SysPrefix} \cup NewPrefixes

-----------------------------------------------------------------------------
(* The file system *)

\* A node: nothing, a directory or a regular file.  The mode of a file is
\* "rw", "ro" (read only), "wo" (write only) or "no" (neither); of a
\* directory "rw" or "ro" (no entry can be created in it).
Absent == [t |-> "none", data |-> "", mode |-> "rw"]
DirNode(m) == [t |-> "dir", data |-> "", mode |-> m]
FileNode(d, m) == [t |-> "file", data |-> d, mode |-> m]

EnvPaths(p) == {p, join(p, "etc"), join(join(p, "etc"), "aau_token")}
\* the directories of the search path that may hold system tokens
SystemDirs == {"/etc/conda", "/var/lib/conda", "/home/.config/conda"}
SystemPaths(d) == {d, join(d, ORG_TOKEN_NAME), join(d, MACHINE_TOKEN_NAME)}
\* the secrets directory and the files api_key.py looks for in it
SecretsDir == "/run/secrets"
SecretNames ==
    {"ANACONDA_AUTH_API_KEY", "anaconda_auth_api_key", "ANACONDA_AUTH_KEYRING",
     "anaconda_auth_keyring", "ANACONDA_AUTH_DOMAIN", "anaconda_auth_domain"}
SecretPaths == {"/run", SecretsDir} \cup {join(SecretsDir, k) : k \in SecretNames}
AllPaths ==
    {"/home", CONFIG_DIR, join(CONFIG_DIR, "aau_token"),
     join(CONFIG_DIR, "aau_token") \o "_host",
     ANACONDA_DIR, join(ANACONDA_DIR, "keyring")}
    \cup UNION {EnvPaths(p) : p \in Prefixes}
    \cup UNION {SystemPaths(d) : d \in SystemDirs}
    \cup SecretPaths

\* os.path.isdir, isfile, exists; the root always is a directory
isdir(f, p) == p = "/" \/ (p \in AllPaths /\ f[p].t = "dir")
isfile(f, p) == p \in AllPaths /\ f[p].t = "file"
exists(f, p) == p = "/" \/ (p \in AllPaths /\ f[p].t # "none")
ModeOf(f, p) == IF p = "/" THEN "rw" ELSE f[p].mode
\* the node at a path, absent for a path outside the model
NodeAt(f, p) == IF p \in AllPaths THEN f[p] ELSE Absent

\* The outcome of a system call: err is "ok", "perm" (EACCES, EPERM, EROFS)
\* or "other" (any other OSError), fs the file system it leaves.
Sys(e, f) == [err |-> e, fs |-> f]

\* os.mkdir(d) once the parents have been made
mkdir(up, d) ==
    IF up.err # "ok" THEN up
    ELSE IF ModeOf(up.fs, dirname(d)) # "rw" THEN Sys("perm", up.fs)
    ELSE Sys("ok", [up.fs EXCEPT ![d] = DirNode("rw")])

\* os.makedirs(d, exist_ok=True)
RECURSIVE makedirs(_, _)
makedirs(f, d) ==
    IF isdir(f, d) THEN Sys("ok", f)
    ELSE IF exists(f, d) \/ d \notin AllPaths THEN Sys("other", f)
    ELSE mkdir(makedirs(f, dirname(d)), d)

\* with open(p, "w") as fp: fp.write(data)
open_w(f, p, data) ==
    IF ~isdir(f, dirname(p)) \/ p \notin AllPaths THEN Sys("other", f)
    ELSE IF isdir(f, p) THEN Sys("other", f)
    ELSE IF isfile(f, p)
         THEN IF f[p].mode \in {"rw", "wo"}
              THEN Sys("ok", [f EXCEPT ![p] = FileNode(data, f[p].mode)])
              ELSE Sys("perm", f)
    ELSE IF ModeOf(f, dirname(p)) = "rw"
         THEN Sys("ok", [f EXCEPT ![p] = FileNode(data, "rw")])
         ELSE Sys("perm", f)

\* with open(p) as fp: data = fp.read()  (of an existing regular file)
open_r(f, p) ==
    IF f[p].mode \in {"rw", "ro"} THEN [err |-> "ok", data |-> f[p].data]
    ELSE [err |-> "perm", data |-> ""]

-----------------------------------------------------------------------------
(* utils.py *)

\* _debug(s, *args, error=error): TRUE when the call ends in ImportError.
\* With error set and DEBUG unset it imports conda.base.context to read
\* context.json; nothing else in it can fail.
_debug(error) == error /\ ~DEBUG /\ ~conda_importable

\* base64.urlsafe_b64encode of the n-th os.urandom draw of nbytes bytes:
\* 4 characters per 3 bytes, the last group padded with "=".
Alphabet == "BCDEFGHIJKLMNOPQRSTUVWXYZ"
b64encode_urandom(n, nbytes) ==
    LET groups == (nbytes + 2) \div 3
        pad == (3 - (nbytes % 3)) % 3
    IN  SubSeq(Alphabet, n, n) \o Rep("A", 4 * groups - pad - 1) \o Rep("=", pad)

\* the number of bytes _random_token asks os.urandom for
RandomBytes == (TOKEN_LENGTH * 6 - 1) \div 8 + 1

\* a faulty variant of _random_token: the code is not cut to TOKEN_LENGTH
_random_token_Uncut(n) == b64encode_urandom(n, RandomBytes)

\* _random_token(), for the n-th draw
_random_token(n) == SubSeq(b64encode_urandom(n, RandomBytes), 1, TOKEN_LENGTH)

\* The result of _write_attempt: its status, the file system it leaves, and
\* whether it ended in an exception (raised by _debug in the handler).
WriteResult(s, f, r) == [status |-> s, fs |-> f, raised |-> r]

\* what the "except Exception" handler of _write_attempt does with an error
WriteFailed(err, f) ==
    IF err = "perm" THEN WriteResult(WRITE_FAIL, f, _debug(FALSE))
    ELSE WriteResult(WRITE_FAIL, f, _debug(TRUE))

\* the end of the try block of _write_attempt, after the file was opened
WriteDone(op) ==
    IF op.err # "ok" THEN WriteFailed(op.err, op.fs)
    ELSE WriteResult(WRITE_SUCCESS, op.fs, FALSE)

_write_attempt(f, must_exist, fpath, client_token, emulate_fail) ==
    IF Truthy(must_exist) /\ ~isdir(f, must_exist)
    THEN WriteResult(WRITE_DEFER, f, FALSE)
    ELSE IF emulate_fail THEN WriteFailed("perm", f)
    ELSE With(makedirs(f, dirname(fpath)), LAMBDA md :
         IF md.err # "ok" THEN WriteFailed(md.err, md.fs)
         ELSE WriteDone(open_w(md.fs, fpath,
                               IF WRITE_NEWLINE
                               THEN client_token \o "\n# Test comment"
                               ELSE client_token)))

\* a faulty variant of _deferred_exists: DEFERRED is not consulted
_deferred_exists_Never(fpath, what, deferred_writes) == None

\* _deferred_exists(fpath, what, deferred_writes): the first matching token
RECURSIVE _deferred_exists(_, _, _)
_deferred_exists(fpath, what, deferred_writes) ==
    IF deferred_writes = <<>> THEN None
    ELSE IF Head(deferred_writes)[2] = fpath /\ Head(deferred_writes)[4] = what
         THEN Head(deferred_writes)[3]
         ELSE _deferred_exists(fpath, what, Tail(deferred_writes))

\* The result of _read_file: the value returned (None included) and whether
\* it ended in an exception.
ReadResult(v, r) == [val |-> v, raised |-> r]

\* a faulty variant of ReadData: what was read is not returned
ReadData_Lost(rd, single_line) == ReadResult(None, FALSE)

\* a faulty variant of SingleLine: the lines after the first are kept
SingleLine_AllLines(stripped) == stripped

\* data.strip(), then data.splitlines()[0] if anything is left
SingleLine(stripped) == IF stripped # "" THEN FirstLine(stripped) ELSE stripped

\* the try block of _read_file and its handler
ReadData(rd, single_line) ==
    IF rd.err # "ok" THEN ReadResult(None, _debug(TRUE))
    ELSE IF single_line THEN ReadResult(SingleLine(strip(rd.data)), FALSE)
    ELSE ReadResult(rd.data, FALSE)

\* a faulty variant of _read_file: READ_CHAOS is not looked at
_read_file_NoChaos(f, deferred, fpath, what, single_line) ==
    With(_deferred_exists(fpath, what, deferred), LAMBDA deferred_token :
        IF Truthy(deferred_token) THEN ReadResult(deferred_token, FALSE)
        ELSE IF ~isfile(f, fpath) THEN ReadResult(None, FALSE)
        ELSE ReadData(open_r(f, fpath), single_line))

\* a faulty variant of _read_file: DEFERRED is not consulted
_read_file_NoDeferred(f, deferred, fpath, what, single_line) ==
    IF InStr(Head(what), READ_CHAOS) THEN ReadResult(None, FALSE)
    ELSE IF ~isfile(f, fpath) THEN ReadResult(None, FALSE)
    ELSE ReadData(open_r(f, fpath), single_line)

_read_file(f, deferred, fpath, what, single_line) ==
    With(_deferred_exists(fpath, what, deferred), LAMBDA deferred_token :
        IF Truthy(deferred_token) THEN ReadResult(deferred_token, FALSE)
        ELSE IF InStr(Head(what), READ_CHAOS) THEN ReadResult(None, FALSE)
        ELSE IF ~isfile(f, fpath) THEN ReadResult(None, FALSE)
        ELSE ReadData(open_r(f, fpath), single_line))

\* a faulty variant of _get_node_str: an undetermined node id is reported as
\* the text "None"
_get_node_str_Text == IF node = 0 THEN "None" ELSE SubSeq("01234567", node, node) \o "nodeAAA"

\* The base64 text of a node id: 6 bytes give 8 characters, no padding.
NodeStr(n) == SubSeq("01234567", n, n) \o "nodeAAA"
\* _get_node_str(): a node id that cannot be determined is returned as it is
_get_node_str == IF node = 0 THEN None ELSE NodeStr(node)

\* The result of _saved_token: the value returned (Raised when the call ends
\* in an exception), the file system and DEFERRED it leaves, the number of
\* os.urandom draws it made, the status of its token write attempt if it
\* made one, and the token write if it succeeded.
SavedResult(v, f, d, n, s, w) ==
    [ret |-> v, fs |-> f, deferred |-> d, draws |-> n, status |-> s, wrote |-> w]

\* faulty variants of TooShort: a token of exactly TOKEN_LENGTH characters is
\* rejected; only an empty token is rejected
TooShort_OffByOne(client_token) == Len(client_token) <= TOKEN_LENGTH
TooShort_EmptyOnly(client_token) == client_token = ""

\* "if len(client_token) < TOKEN_LENGTH:" of _saved_token
TooShort(client_token) == Len(client_token) < TOKEN_LENGTH

\* "if regenerate or resave:" to the end of _saved_token
SaveToken(f, deferred, fpath, what, must_exist, read_only, regenerate, resave, token0, n) ==
    IF ~(regenerate \/ resave) THEN SavedResult(token0, f, deferred, 0, {}, {})
    ELSE IF read_only THEN SavedResult("", f, deferred, 0, {}, {})
    ELSE
    With(IF regenerate THEN _random_token(n) ELSE token0, LAMBDA client_token :
    With(IF regenerate THEN 1 ELSE 0, LAMBDA draws :
    With(_write_attempt(f, must_exist, fpath, client_token,
                        InStr(Head(what), WRITE_CHAOS)), LAMBDA w :
        IF w.raised
        THEN SavedResult(Raised, w.fs, deferred, draws, {w.status}, {})
        ELSE IF w.status = WRITE_FAIL
        THEN SavedResult("", w.fs, deferred, draws, {w.status}, {})
        ELSE IF w.status = WRITE_DEFER
        THEN SavedResult(client_token, w.fs,
                         Append(deferred, <<must_exist, fpath, client_token, what>>),
                         draws, {w.status}, {})
        ELSE SavedResult(client_token, w.fs, deferred, draws, {w.status},
                         {<<fpath, client_token>>}))))

\* a faulty variant of SaveNode: the sidecar is never written
SaveNode_Skipped(f, deferred, npath, saved_node, current_node) ==
    [fs |-> f, deferred |-> deferred, raised |-> FALSE]

\* "if saved_node != current_node:" of _saved_token: the sidecar is written
SaveNode(f, deferred, npath, saved_node, current_node) ==
    IF saved_node = current_node THEN [fs |-> f, deferred |-> deferred, raised |-> FALSE]
    ELSE With(_write_attempt(f, None, npath, Or(current_node, ""), FALSE), LAMBDA w :
         [fs |-> w.fs,
          deferred |-> IF w.status = WRITE_DEFER
                       THEN Append(deferred, <<None, npath, Or(current_node, ""), "Host ID">>)
                       ELSE deferred,
          raised |-> w.raised])

\* "if node_tie:" of _saved_token, after the sidecar was read
NodeTie(f, deferred, fpath, what, must_exist, read_only, token0, xtra, short, saved_node, current_node, n) ==
    With(Or(saved_node, IF xtra # <<>> THEN xtra[1] ELSE None), LAMBDA true_node :
    With(short \/ (Truthy(true_node) /\ true_node # current_node), LAMBDA regenerate :
    With(~short /\ Truthy(true_node) /\ true_node = current_node /\ xtra # <<>>, LAMBDA resave :
    With(SaveNode(f, deferred, fpath \o "_host", saved_node, current_node), LAMBDA sn :
        IF sn.raised THEN SavedResult(Raised, sn.fs, deferred, 0, {}, {})
        ELSE SaveToken(sn.fs, sn.deferred, fpath, what, must_exist, read_only,
                       regenerate, resave, token0, n)))))

\* _saved_token(fpath, what, must_exist, read_only, node_tie), called with
\* file system f and DEFERRED list deferred; n numbers its os.urandom draw.
_saved_token(f, deferred, fpath, kind, must_exist, read_only, node_tie, n) ==
    With(kind \o " token", LAMBDA what :
    With(_read_file(f, deferred, fpath, what, TRUE), LAMBDA r1 :
        IF r1.raised THEN SavedResult(Raised, f, deferred, 0, {}, {})
        ELSE
        With(split1(Or(r1.val, "")), LAMBDA parts :
        With(TooShort(parts[1]), LAMBDA short :
            IF ~node_tie
            THEN SaveToken(f, deferred, fpath, what, must_exist, read_only,
                           short, FALSE, parts[1], n)
            ELSE
            With(_read_file(f, deferred, fpath \o "_host", "Host id", TRUE), LAMBDA r2 :
                IF r2.raised THEN SavedResult(Raised, f, deferred, 0, {}, {})
                ELSE NodeTie(f, deferred, fpath, what, must_exist, read_only,
                             parts[1], Tail(parts), short, Or(r2.val, ""),
                             _get_node_str, n))))))

\* a faulty variant of _final_attempt: the loop ends after the first entry
_final_attempt_FirstOnly(f, deferred) ==
    IF deferred = <<>> THEN [fs |-> f, log |-> <<>>, wrote |-> {}]
    ELSE
    With(Head(deferred), LAMBDA e :
    With(_write_attempt(f, e[1], e[2], e[3], FALSE), LAMBDA w :
        [fs |-> w.fs,
         log |-> IF w.raised THEN <<>> ELSE <<w.status>>,
         wrote |-> IF ~w.raised /\ w.status = WRITE_SUCCESS
                   THEN {<<e[2], e[3]>>} ELSE {}]))

\* The result of _final_attempt: the file system it leaves, the status of
\* each write attempt it made, in order, and the token writes that succeeded;
\* an exception ends the loop.
RECURSIVE _final_attempt(_, _)
_final_attempt(f, deferred) ==
    IF deferred = <<>> THEN [fs |-> f, log |-> <<>>, wrote |-> {}]
    ELSE
    With(Head(deferred), LAMBDA e :
    With(_write_attempt(f, e[1], e[2], e[3], FALSE), LAMBDA w :
        IF w.raised THEN [fs |-> w.fs, log |-> <<>>, wrote |-> {}]
        ELSE
        With(_final_attempt(w.fs, Tail(deferred)), LAMBDA rest :
            [fs |-> rest.fs,
             log |-> <<w.status>> \o rest.log,
             wrote |-> (IF w.status = WRITE_SUCCESS THEN {<<e[2], e[3]>>} ELSE {})
                       \cup rest.wrote])))

-----------------------------------------------------------------------------
(* tokens.py: the two persisted tokens *)

TokenPath(dir) == join(dir, "aau_token")
ClientPath == TokenPath(CONFIG_DIR)
EnvPath(prefix) == TokenPath(join(prefix, "etc"))

\* client_token(): _saved_token(fpath, "client", node_tie=True)
client_token(f, deferred, n) ==
    _saved_token(f, deferred, ClientPath, "client", None, FALSE, TRUE, n)

\* environment_token(prefix): _saved_token(fpath, "environment", prefix)
environment_token(f, deferred, prefix, n) ==
    With(IF prefix = None THEN SysPrefix ELSE prefix, LAMBDA p :
        _saved_token(f, deferred, EnvPath(p), "environment", p, FALSE, FALSE, n))

-----------------------------------------------------------------------------
(* The states a run starts from *)

\* tokens found on disk: one character short, exactly long enough, longer
Short == Rep("s", TOKEN_LENGTH - 1)
Tok22 == Rep("c", TOKEN_LENGTH)
Tok23 == Rep("d", TOKEN_LENGTH + 1)
\* the host id of this machine when it can be determined, and of another one
HereStr == NodeStr(1)
ElsewhereStr == NodeStr(2)

Modes == {"rw", "ro", "wo", "no"}
ChaosValues == {"", "ce"}

\* the version 0.7.0 format: the token and the host id on one line
Inline(h) == Tok22 \o " " \o h

\* what may be found at the path of a token file, and of a sidecar
ClientNodes ==
    {Absent, DirNode("rw")}
    \cup {FileNode(Tok22, m) : m \in Modes}
    \cup {FileNode(Inline(HereStr), m) : m \in {"rw", "ro"}}
    \cup {FileNode(d, "rw") : d \in {Short, Tok23, Inline(ElsewhereStr),
                                      Tok22 \o "\n# comment"}}
EnvNodes ==
    {Absent, DirNode("rw")}
    \cup {FileNode(Tok22, m) : m \in Modes}
    \cup {FileNode(d, "rw") : d \in {Short, "\n" \o Tok23 \o "\n"}}
    \cup {FileNode(Short, "ro")}
HostNodes ==
    {Absent, FileNode(HereStr, "rw"), FileNode(ElsewhereStr, "rw"),
     FileNode(ElsewhereStr, "ro")}

\* nothing below "/home" and "/base" but the directories themselves
EmptyFs ==
    [p \in AllPaths |-> IF p \in {"/home", SysPrefix} THEN DirNode("rw") ELSE Absent]

\* the per-user configuration directory with a token file and a sidecar
ClientFs ==
    {[EmptyFs EXCEPT ![CONFIG_DIR] = DirNode(m),
                     ![ClientPath] = t,
                     ![ClientPath \o "_host"] = h] :
        m \in {"rw", "ro"}, t \in ClientNodes, h \in HostNodes}

\* an environment that exists, with or without its etc directory and token
EnvFs(prefix) ==
    {[EmptyFs EXCEPT ![prefix] = DirNode(m)] : m \in {"rw", "ro"}}
    \cup {[EmptyFs EXCEPT ![prefix] = DirNode(m),
                          ![join(prefix, "etc")] = DirNode("rw"),
                          ![EnvPath(prefix)] = t] :
            m \in {"rw", "ro"}, t \in EnvNodes}

\* A call site, which is a cache key: the function and its argument.
ClientSite == [fn |-> "client_token", prefix |-> None]
EnvSite(p) == [fn |-> "environment_token", prefix |-> p]
Keys == {ClientSite} \cup {EnvSite(p) : p \in Prefixes \cup {None}}

Threads == 1..NThreads
NoCall == "<no call>"
NoSite == [fn |-> NoCall, prefix |-> None]
Idle == [at |-> "idle", key |-> NoSite]

\* The record of a call: its site, the value it returned, what it found (the
\* token file, the sidecar, whether the guard directory was there, DEFERRED),
\* the status of its token write attempt if it made one, and the value
\* returned by the call just before it when that was a call of the same site
\* (NoCall otherwise).
NoHistory ==
    [site |-> NoSite, ret |-> NoCall, file |-> Absent, host |-> Absent,
     guard |-> TRUE, deferred |-> <<>>, status |-> {}, prev |-> NoCall]

\* the environment variables the package reads, none of them set
EnvNames ==
    {"ANACONDA_ANON_USAGE_ORG_TOKEN", "ANACONDA_ANON_USAGE_MACHINE_TOKEN",
     "ANACONDA_ANON_USAGE_INSTALLER_TOKEN", "ANACONDA_AUTH_API_KEY",
     "XDG_CONFIG_HOME", "anaconda_auth_api_key", "ANACONDA_AUTH_KEYRING",
     "ANACONDA_AUTH_DOMAIN", "ANACONDA_ANON_USAGE_STANDALONE"}
NoEnviron == [name \in EnvNames |-> None]

\* The record of a call through the cache: its key, the value it returned,
\* the exception it ended in ("" when it returned) and the keys it added to
\* CACHE, which are the functions whose bodies ran.
NoCalled == [key |-> NoSite, val |-> NoCall, exc |-> "", new |-> {}]

InitCommon ==
    /\ procs = NoProcs
    /\ Context = NoContext
    /\ sp_dir = NoSpDir
    /\ environ = NoEnviron
    /\ SEARCH_PATH = <<>>
    /\ now = 1000
    /\ called = NoCalled
    /\ anaconda_auth = None
    /\ DEFERRED = <<>>
    /\ CACHE = {}
    /\ LOCK = 0
    /\ DEBUG \in BOOLEAN
    /\ conda_importable \in BOOLEAN
    /\ ~(DEBUG /\ conda_importable)
    /\ urandom = 0
    /\ phase = "running"
    /\ pc = [t \in Threads |-> Idle]
    /\ last = NoHistory
    /\ written = {}
    /\ returned = {}
    /\ runs = [k \in Keys |-> 0]
    /\ exitlog = <<>>

\* The client token and the environment tokens share no file, no DEFERRED
\* entry and no fault injection letter: a run exercises one of the two.
Init ==
    /\ \/ /\ sites = {ClientSite}
          /\ fs \in {EmptyFs} \cup ClientFs
          /\ node \in {0, 1}
       \/ /\ sites = {EnvSite("/env")}
          /\ fs \in EnvFs("/env")
          /\ node = 1
       \/ /\ sites = {EnvSite(p) : p \in NewPrefixes}
          /\ fs = EmptyFs
          /\ node = 1
    /\ READ_CHAOS = ""
    /\ WRITE_CHAOS = ""
    /\ InitCommon

-----------------------------------------------------------------------------
(* Direct calls of the token functions' bodies, the exit hook, and the      *)
(* environment                                                              *)

\* the body of the token function of a call site
Body(site, f, deferred, n) ==
    IF site.fn = "client_token" THEN client_token(f, deferred, n)
    ELSE environment_token(f, deferred, site.prefix, n)

SitePath(site) ==
    IF site.fn = "client_token" THEN ClientPath
    ELSE IF site.prefix = None THEN EnvPath(SysPrefix)
    ELSE EnvPath(site.prefix)

\* the guard directory of a call site is there (a site without one: TRUE)
GuardThere(site, f) ==
    IF site.fn = "client_token" THEN TRUE
    ELSE IF site.prefix = None THEN isdir(f, SysPrefix)
    ELSE isdir(f, site.prefix)

AllIdle == \A t \in Threads : pc[t] = Idle

\* One call of a token function's body, outside the cache.
SavedToken(site) ==
    /\ phase = "running"
    /\ AllIdle
    /\ \E r \in {Body(site, fs, DEFERRED, urandom + 1)} :
          /\ urandom + r.draws <= MaxTokens
          /\ fs' = r.fs
          /\ DEFERRED' = r.deferred
          /\ urandom' = urandom + r.draws
          /\ written' = written \cup r.wrote
          /\ returned' = IF r.ret = Raised THEN returned
                         ELSE returned \cup {<<site, r.ret>>}
          /\ last' = [site |-> site, ret |-> r.ret,
                      file |-> NodeAt(fs, SitePath(site)),
                      host |-> NodeAt(fs, SitePath(site) \o "_host"),
                      guard |-> GuardThere(site, fs),
                      deferred |-> DEFERRED,
                      status |-> r.status,
                      prev |-> IF last.site = site THEN last.ret ELSE NoCall]
    /\ UNCHANGED extvars
    /\ UNCHANGED hostvars
    /\ UNCHANGED <<sites, CACHE, LOCK, READ_CHAOS, WRITE_CHAOS, DEBUG,
                   conda_importable, node, phase, pc, runs, exitlog>>

ExitHook == [fn |-> "_final_attempt", prefix |-> None]

\* Normal process exit: atexit runs _final_attempt.
Exit ==
    /\ phase = "running"
    /\ AllIdle
    /\ \E r \in {_final_attempt(fs, DEFERRED)} :
          /\ fs' = r.fs
          /\ exitlog' = r.log
          /\ written' = written \cup r.wrote
    /\ phase' = "exited"
    /\ last' = [NoHistory EXCEPT !.site = ExitHook]
    /\ UNCHANGED extvars
    /\ UNCHANGED hostvars
    /\ UNCHANGED <<sites, DEFERRED, CACHE, LOCK, READ_CHAOS, WRITE_CHAOS, DEBUG,
                   conda_importable, node, urandom, pc, returned, runs>>

\* Abnormal termination: the exit hook does not run.
Kill ==
    /\ phase = "running"
    /\ phase' = "killed"
    /\ last' = NoHistory
    /\ UNCHANGED extvars
    /\ UNCHANGED hostvars
    /\ UNCHANGED <<sites, fs, DEFERRED, CACHE, LOCK, READ_CHAOS, WRITE_CHAOS,
                   DEBUG, conda_importable, node, urandom, pc, written,
                   returned, runs, exitlog>>

\* a faulty variant of Start: DEFERRED outlives the process
Start_KeepDeferred ==
    /\ phase \in {"exited", "killed"}
    /\ phase' = "running"
    /\ CACHE' = {}
    /\ last' = NoHistory
    /\ written' = {}
    /\ returned' = {}
    /\ runs' = [k \in Keys |-> 0]
    /\ exitlog' = <<>>
    /\ UNCHANGED extvars
    /\ UNCHANGED hostvars
    /\ UNCHANGED <<sites, fs, DEFERRED, LOCK, READ_CHAOS, WRITE_CHAOS, DEBUG,
                   conda_importable, node, urandom, pc>>

\* The next process: the module globals are initialised again.
Start ==
    /\ phase \in {"exited", "killed"}
    /\ phase' = "running"
    /\ DEFERRED' = <<>>
    /\ CACHE' = {}
    /\ last' = NoHistory
    /\ written' = {}
    /\ returned' = {}
    /\ runs' = [k \in Keys |-> 0]
    /\ exitlog' = <<>>
    /\ UNCHANGED extvars
    /\ UNCHANGED hostvars
    /\ UNCHANGED <<sites, fs, LOCK, READ_CHAOS, WRITE_CHAOS, DEBUG,
                   conda_importable, node, urandom, pc>>

\* conda creates the directory of a new environment.
CreateEnv(prefix) ==
    /\ prefix \in NewPrefixes
    /\ ~exists(fs, prefix)
    /\ \E m \in {"rw", "ro"} : fs' = [fs EXCEPT ![prefix] = DirNode(m)]
    /\ last' = NoHistory
    /\ UNCHANGED extvars
    /\ UNCHANGED hostvars
    /\ UNCHANGED <<sites, DEFERRED, CACHE, LOCK, READ_CHAOS, WRITE_CHAOS, DEBUG,
                   conda_importable, node, urandom, phase, pc, written,
                   returned, runs, exitlog>>

\* The fault injection settings are changed (monkeypatch.setattr in the tests).
SetChaos ==
    /\ phase = "running"
    /\ \E r \in ChaosValues, w \in ChaosValues :
          /\ <<r, w>> # <<READ_CHAOS, WRITE_CHAOS>>
          /\ READ_CHAOS' = r
          /\ WRITE_CHAOS' = w
    /\ last' = NoHistory
    /\ UNCHANGED extvars
    /\ UNCHANGED hostvars
    /\ UNCHANGED <<sites, fs, DEFERRED, CACHE, LOCK, DEBUG, conda_importable,
                   node, urandom, phase, pc, written, returned, runs, exitlog>>

Next ==
    \/ \E site \in sites : SavedToken(site)
    \/ Exit
    \/ Kill
    \/ Start
    \/ \E site \in sites : CreateEnv(site.prefix)
    \/ SetChaos

Spec == Init /\ [][Next]_vars

-----------------------------------------------------------------------------
(* utils.cached: threads of one process calling the cached token functions  *)

\* key in CACHE, and CACHE[key]
InCache(cache, key) == \E e \in cache : e[1] = key
CacheGet(cache, key) == (CHOOSE e \in cache : e[1] = key)[2]
\* what "CACHE[key]" gives: the value, or the exception of a missing key
KeyError == "<KeyError>"
Subscript(cache, key) == IF InCache(cache, key) THEN CacheGet(cache, key) ELSE KeyError

Goto(t, at) == pc' = [pc EXCEPT ![t].at = at]

\* thread t calls the cached function of a key: call_if_needed is entered
Call(t, key) ==
    /\ phase = "running"
    /\ pc[t] = Idle
    /\ pc' = [pc EXCEPT ![t] = [at |-> "check", key |-> key]]
    /\ UNCHANGED extvars
    /\ UNCHANGED hostvars
    /\ UNCHANGED <<fs, DEFERRED, CACHE, LOCK, READ_CHAOS, WRITE_CHAOS, DEBUG,
                   conda_importable, node, urandom, phase, sites, last,
                   written, returned, runs, exitlog>>

\* "if key not in CACHE:", outside the lock
Check(t) ==
    /\ pc[t].at = "check"
    /\ IF InCache(CACHE, pc[t].key) THEN Goto(t, "return") ELSE Goto(t, "acquire")
    /\ UNCHANGED extvars
    /\ UNCHANGED hostvars
    /\ UNCHANGED <<fs, DEFERRED, CACHE, LOCK, READ_CHAOS, WRITE_CHAOS, DEBUG,
                   conda_importable, node, urandom, phase, sites, last,
                   written, returned, runs, exitlog>>

\* "with LOCK:" is entered
Acquire(t) ==
    /\ pc[t].at = "acquire"
    /\ LOCK \in {0, t}
    /\ LOCK' = t
    /\ Goto(t, "recheck")
    /\ UNCHANGED extvars
    /\ UNCHANGED hostvars
    /\ UNCHANGED <<fs, DEFERRED, CACHE, READ_CHAOS, WRITE_CHAOS, DEBUG,
                   conda_importable, node, urandom, phase, sites, last,
                   written, returned, runs, exitlog>>

\* "if key not in CACHE:", inside the lock
Recheck(t) ==
    /\ pc[t].at = "recheck"
    /\ IF InCache(CACHE, pc[t].key) THEN Goto(t, "release") ELSE Goto(t, "compute")
    /\ UNCHANGED extvars
    /\ UNCHANGED hostvars
    /\ UNCHANGED <<fs, DEFERRED, CACHE, LOCK, READ_CHAOS, WRITE_CHAOS, DEBUG,
                   conda_importable, node, urandom, phase, sites, last,
                   written, returned, runs, exitlog>>

\* "CACHE[key] = func(*args, **kwargs)": an exception of the body leaves the
\* with block, which releases the lock, and the call
Compute(t) ==
    /\ pc[t].at = "compute"
    /\ runs[pc[t].key] < MaxRuns
    /\ \E r \in {Body(pc[t].key, fs, DEFERRED, urandom + 1)} :
          /\ urandom + r.draws <= MaxTokens
          /\ fs' = r.fs
          /\ DEFERRED' = r.deferred
          /\ urandom' = urandom + r.draws
          /\ written' = written \cup r.wrote
          /\ runs' = [runs EXCEPT ![pc[t].key] = @ + 1]
          /\ IF r.ret = Raised
             THEN /\ pc' = [pc EXCEPT ![t] = Idle]
                  /\ LOCK' = 0
                  /\ CACHE' = CACHE
             ELSE /\ Goto(t, "release")
                  /\ LOCK' = LOCK
                  /\ CACHE' = CACHE \cup {<<pc[t].key, r.ret>>}
    /\ UNCHANGED extvars
    /\ UNCHANGED hostvars
    /\ UNCHANGED <<READ_CHAOS, WRITE_CHAOS, DEBUG, conda_importable, node,
                   phase, sites, last, returned, exitlog>>

\* the with block is left
Release(t) ==
    /\ pc[t].at = "release"
    /\ LOCK' = 0
    /\ Goto(t, "return")
    /\ UNCHANGED extvars
    /\ UNCHANGED hostvars
    /\ UNCHANGED <<fs, DEFERRED, CACHE, READ_CHAOS, WRITE_CHAOS, DEBUG,
                   conda_importable, node, urandom, phase, sites, last,
                   written, returned, runs, exitlog>>

\* "return CACHE[key]"
Return(t) ==
    /\ pc[t].at = "return"
    /\ returned' = returned \cup {<<pc[t].key, Subscript(CACHE, pc[t].key)>>}
    /\ pc' = [pc EXCEPT ![t] = Idle]
    /\ UNCHANGED extvars
    /\ UNCHANGED hostvars
    /\ UNCHANGED <<fs, DEFERRED, CACHE, LOCK, READ_CHAOS, WRITE_CHAOS, DEBUG,
                   conda_importable, node, urandom, phase, sites, last,
                   written, runs, exitlog>>

\* One process: the fault injection settings are those of its environment
\* (ANACONDA_ANON_USAGE_READ_CHAOS, ANACONDA_ANON_USAGE_WRITE_CHAOS).
InitT ==
    /\ \/ /\ sites = {ClientSite}
          /\ fs \in {EmptyFs} \cup ClientFs
          /\ fs[CONFIG_DIR].mode = "rw"
          /\ node = 1
       \/ /\ sites = {EnvSite(None), EnvSite(SysPrefix)}
          /\ fs \in EnvFs(SysPrefix)
          /\ node = 1
       \/ /\ sites = {EnvSite("/env")}
          /\ fs = EmptyFs
          /\ node = 1
    /\ READ_CHAOS \in ChaosValues
    /\ WRITE_CHAOS \in ChaosValues
    /\ InitCommon

NextT ==
    \/ \E t \in Threads, key \in sites : Call(t, key)
    \/ \E t \in Threads : Check(t)
    \/ \E t \in Threads : Acquire(t)
    \/ \E t \in Threads : Recheck(t)
    \/ \E t \in Threads : Compute(t)
    \/ \E t \in Threads : Release(t)
    \/ \E t \in Threads : Return(t)
    \/ Exit
    \/ \E site \in sites : CreateEnv(site.prefix)

SpecT == InitT /\ [][NextT]_vars

\* _cache_clear(*args): without names CACHE.clear(); with names CACHE is
\* rebound to the entries of the other functions. It takes no lock.
Cleared(cache, args) == IF args = {} THEN {} ELSE {e \in cache : e[1].fn \notin args}

ClearArgs == {{}} \cup {{site.fn} : site \in sites}

\* a thread of the process calls _cache_clear while others are in cached calls
_cache_clear(args) ==
    /\ phase = "running"
    /\ CACHE # {}
    /\ CACHE' = Cleared(CACHE, args)
    /\ UNCHANGED extvars
    /\ UNCHANGED hostvars
    /\ UNCHANGED <<fs, DEFERRED, LOCK, READ_CHAOS, WRITE_CHAOS, DEBUG,
                   conda_importable, node, urandom, phase, sites, last,
                   written, returned, runs, exitlog, pc>>

InitC ==
    /\ \/ /\ sites = {ClientSite}
          /\ fs \in {EmptyFs}
          /\ node = 1
       \/ /\ sites = {EnvSite(None), EnvSite(SysPrefix)}
          /\ fs \in EnvFs(SysPrefix)
          /\ node = 1
    /\ READ_CHAOS = ""
    /\ WRITE_CHAOS = ""
    /\ InitCommon

NextC ==
    \/ \E t \in Threads, key \in sites : Call(t, key)
    \/ \E t \in Threads : Check(t)
    \/ \E t \in Threads : Acquire(t)
    \/ \E t \in Threads : Recheck(t)
    \/ \E t \in Threads : Compute(t)
    \/ \E t \in Threads : Release(t)
    \/ \E t \in Threads : Return(t)
    \/ \E args \in ClearArgs : _cache_clear(args)

SpecC == InitC /\ [][NextC]_vars


-----------------------------------------------------------------------------
(* Text and lists: the str and list operations tokens.py uses *)

EndsWith(s, suffix) ==
    Len(s) >= Len(suffix) /\ SubSeq(s, Len(s) - Len(suffix) + 1, Len(s)) = suffix
StartsWith(s, prefix) ==
    Len(s) >= Len(prefix) /\ SubSeq(s, 1, Len(prefix)) = prefix

\* s.find(c) + 1: the place of the first occurrence of the character c, or 0
Find(s, c) ==
    IF \E i \in 1..Len(s) : SubSeq(s, i, i) = c
    THEN CHOOSE i \in 1..Len(s) :
            /\ SubSeq(s, i, i) = c
            /\ \A j \in 1..(i - 1) : SubSeq(s, j, j) # c
    ELSE 0

\* s.split(c): the pieces of s between the occurrences of the character c
RECURSIVE SplitOn(_, _)
SplitOn(s, c) ==
    With(Find(s, c), LAMBDA i :
        IF i = 0 THEN <<s>>
        ELSE <<SubSeq(s, 1, i - 1)>> \o SplitOn(SubSeq(s, i + 1, Len(s)), c))

\* sep.join(parts)
RECURSIVE Join(_, _)
Join(parts, sep) ==
    IF parts = <<>> THEN ""
    ELSE IF Len(parts) = 1 THEN parts[1]
    ELSE parts[1] \o sep \o Join(Tail(parts), sep)

\* s.strip("=")
RECURSIVE StripEq(_)
StripEq(s) ==
    IF s = "" THEN ""
    ELSE IF Head(s) = "=" THEN StripEq(Tail(s))
    ELSE IF SubSeq(s, Len(s), Len(s)) = "=" THEN StripEq(SubSeq(s, 1, Len(s) - 1))
    ELSE s

Lowercase == "abcdefghijklmnopqrstuvwxyz"
Uppercase == "ABCDEFGHIJKLMNOPQRSTUVWXYZ"
Digits == "0123456789"

\* the characters of a string, as a set of one-character strings
Chars(s) == {SubSeq(s, i, i) : i \in 1..Len(s)}

\* s.upper()
RECURSIVE upper(_)
upper(s) ==
    IF s = "" THEN ""
    ELSE (IF \E i \in 1..26 : SubSeq(Lowercase, i, i) = Head(s)
          THEN With(CHOOSE i \in 1..26 : SubSeq(Lowercase, i, i) = Head(s),
                    LAMBDA i : SubSeq(Uppercase, i, i))
          ELSE Head(s)) \o upper(Tail(s))

\* [t for t in tokens if t]
RECURSIVE NonEmpty(_)
NonEmpty(tokens) ==
    IF tokens = <<>> THEN <<>>
    ELSE IF Truthy(Head(tokens)) THEN <<Head(tokens)>> \o NonEmpty(Tail(tokens))
    ELSE NonEmpty(Tail(tokens))

\* list(dict.fromkeys(tokens)): each value once, at its first position
RECURSIVE fromkeys(_, _)
fromkeys(tokens, seen) ==
    IF tokens = <<>> THEN <<>>
    ELSE IF Head(tokens) \in seen THEN fromkeys(Tail(tokens), seen)
    ELSE <<Head(tokens)>> \o fromkeys(Tail(tokens), seen \cup {Head(tokens)})

-----------------------------------------------------------------------------
(* Values read from JSON text.  A value carries its Python type; a dict is  *)
(* the sequence of its <<key, value>> items in the order of the text.       *)

J(ty, v) == [ty |-> ty, v |-> v]
JNull == J("null", 0)
JInt(n) == J("int", n)
\* true and false are ints to isinstance, with the values 1 and 0
JBool(b) == J("bool", IF b THEN 1 ELSE 0)
JStr(s) == J("str", s)
JList(items) == J("list", items)
JDict(items) == J("dict", items)
\* a local variable that was never assigned
Unbound == J("unbound", 0)

\* bool(x)
JTruthy(x) ==
    CASE x.ty = "null" -> FALSE
      [] x.ty \in {"int", "bool"} -> x.v # 0
      [] x.ty = "str" -> x.v # ""
      [] OTHER -> x.v # <<>>

\* d.get(key) of a dict
JGet(d, key) ==
    IF \E i \in 1..Len(d.v) : d.v[i][1] = key
    THEN d.v[CHOOSE i \in 1..Len(d.v) : d.v[i][1] = key][2]
    ELSE JNull

\* The outcome of a conversion that can fail: ok is FALSE when it raises.
Conv(ok, v) == [ok |-> ok, v |-> v]

-----------------------------------------------------------------------------
(* Credentials.  base64, json and uuid are modelled on the texts below, by  *)
(* their real encodings; on any other text they raise.                      *)

Subject1 == "00000000-0000-0000-0000-000000000001"
Subject2 == "00000000-0000-0000-0000-000000000002"
\* the times of the clock: before and after the expiration of Payload1
Times == {1000, 3000}

HeaderJWTText == "{\"typ\":\"JWT\"}"
HeaderJWT == "eyJ0eXAiOiJKV1QifQ"
HeaderJWSText == "{\"typ\":\"JWS\"}"
HeaderJWS == "eyJ0eXAiOiJKV1MifQ"
Payload1Text == "{\"exp\":2000,\"sub\":\"00000000-0000-0000-0000-000000000001\"}"
Payload1 == "eyJleHAiOjIwMDAsInN1YiI6IjAwMDAwMDAwLTAwMDAtMDAwMC0wMDAwLTAwMDAwMDAwMDAwMSJ9"
Payload2Text == "{\"exp\":4000,\"sub\":\"00000000-0000-0000-0000-000000000002\"}"
Payload2 == "eyJleHAiOjQwMDAsInN1YiI6IjAwMDAwMDAwLTAwMDAtMDAwMC0wMDAwLTAwMDAwMDAwMDAwMiJ9"
PayloadNoSubText == "{\"exp\":2000}"
PayloadNoSub == "eyJleHAiOjIwMDB9"
PayloadBadSubText == "{\"exp\":2000,\"sub\":\"nobody\"}"
PayloadBadSub == "eyJleHAiOjIwMDAsInN1YiI6Im5vYm9keSJ9"
PayloadNoExpText == "{\"exp\":0,\"sub\":\"00000000-0000-0000-0000-000000000001\"}"
PayloadNoExp == "eyJleHAiOjAsInN1YiI6IjAwMDAwMDAwLTAwMDAtMDAwMC0wMDAwLTAwMDAwMDAwMDAwMSJ9"
PayloadListText == "[]"
PayloadList == "W10"
SignatureText == "sig"
Signature == "c2ln"
HeaderNoTypText == "{\"alg\":\"RS256\"}"
HeaderNoTyp == "eyJhbGciOiJSUzI1NiJ9"
Payload1LateText == "{\"exp\":4000,\"sub\":\"00000000-0000-0000-0000-000000000001\"}"
Payload1Late == "eyJleHAiOjQwMDAsInN1YiI6IjAwMDAwMDAwLTAwMDAtMDAwMC0wMDAwLTAwMDAwMDAwMDAwMSJ9"
PayloadBoolExpText == "{\"exp\":true,\"sub\":\"00000000-0000-0000-0000-000000000001\"}"
PayloadBoolExp == "eyJleHAiOnRydWUsInN1YiI6IjAwMDAwMDAwLTAwMDAtMDAwMC0wMDAwLTAwMDAwMDAwMDAwMSJ9"
PayloadStrExpText == "{\"exp\":\"2000\",\"sub\":\"00000000-0000-0000-0000-000000000001\"}"
PayloadStrExp == "eyJleHAiOiIyMDAwIiwic3ViIjoiMDAwMDAwMDAtMDAwMC0wMDAwLTAwMDAtMDAwMDAwMDAwMDAxIn0"
PayloadEmptySubText == "{\"exp\":4000,\"sub\":\"\"}"
PayloadEmptySub == "eyJleHAiOjQwMDAsInN1YiI6IiJ9"
PayloadNumSubText == "{\"exp\":4000,\"sub\":5}"
PayloadNumSub == "eyJleHAiOjQwMDAsInN1YiI6NX0"
Signature2Text == "gis"
Signature2 == "Z2lz"
Rec1Code ==
    "eyJhcGlfa2V5IjogImV5SjBlWEFpT2lKS1YxUWlmUS5leUpsZUhBaU9qSXdNREFzSW5OMV"
    \o "lpSTZJakF3TURBd01EQXdMVEF3TURBdE1EQXdNQzB3TURBd0xUQXdNREF3TURBd01EQXdNU0o5LmMybG4ifQ"
Rec2Code ==
    "eyJhcGlfa2V5IjogImV5SjBlWEFpT2lKS1YxUWlmUS5leUpsZUhBaU9qUXdNREFzSW5OMV"
    \o "lpSTZJakF3TURBd01EQXdMVEF3TURBdE1EQXdNQzB3TURBd0xUQXdNREF3TURBd01EQXdNaUo5LmMybG4ifQ"
Rec3Code ==
    "eyJhcGlfa2V5IjogImV5SjBlWEFpT2lKS1YxUWlmUS5leUpsZUhBaU9qUXdNREFzSW5OMV"
    \o "lpSTZJakF3TURBd01EQXdMVEF3TURBdE1EQXdNQzB3TURBd0xUQXdNREF3TURBd01EQXdNU0o5LloybHoifQ"
RecNoKeyText == "{\"domain\": \"anaconda.com\"}"
RecNoKeyCode == "eyJkb21haW4iOiAiYW5hY29uZGEuY29tIn0"

\* "=" added up to a multiple of four characters
Pad(code) == code \o Rep("=", (4 - (Len(code) % 4)) % 4)

\* a credential: header, payload and signature, each base64url without padding
Jwt(header, payload, signature) == header \o "." \o payload \o "." \o signature
Jwt1 == Jwt(HeaderJWT, Payload1, Signature)
Jwt2 == Jwt(HeaderJWT, Payload2, Signature)
Jwt3 == Jwt(HeaderJWT, Payload1Late, Signature2)

\* the text of a keyring entry, as anaconda_auth stores it
RecText(api_key) == "{\"api_key\": \"" \o api_key \o "\"}"

\* base64 code without padding -> the text it encodes
Base64 ==
    {<<HeaderJWT, HeaderJWTText>>, <<HeaderJWS, HeaderJWSText>>,
     <<Payload1, Payload1Text>>, <<Payload2, Payload2Text>>,
     <<PayloadNoSub, PayloadNoSubText>>, <<PayloadBadSub, PayloadBadSubText>>,
     <<PayloadNoExp, PayloadNoExpText>>, <<PayloadList, PayloadListText>>,
     <<Signature, SignatureText>>, <<Signature2, Signature2Text>>,
     <<HeaderNoTyp, HeaderNoTypText>>, <<Payload1Late, Payload1LateText>>,
     <<PayloadBoolExp, PayloadBoolExpText>>, <<PayloadStrExp, PayloadStrExpText>>,
     <<PayloadEmptySub, PayloadEmptySubText>>, <<PayloadNumSub, PayloadNumSubText>>,
     <<Rec1Code, RecText(Jwt1)>>, <<Rec2Code, RecText(Jwt2)>>,
     <<Rec3Code, RecText(Jwt3)>>,
     <<RecNoKeyCode, RecNoKeyText>>}

Decoded(code) ==
    IF \E e \in Base64 : e[1] = code
    THEN Conv(TRUE, (CHOOSE e \in Base64 : e[1] = code)[2])
    ELSE Conv(FALSE, "")

\* base64.b64decode(s) and base64.urlsafe_b64decode(s): the padding has to
\* be complete, excess padding is ignored
b64decode(s) ==
    IF Len(StripEq(s)) % 4 = 1 \/ Len(s) < Len(Pad(StripEq(s))) THEN Conv(FALSE, "")
    ELSE Decoded(StripEq(s))
urlsafe_b64decode(s) == b64decode(s)

\* a faulty variant of b64encode_UUID: the subject is not encoded
b64encode_UUID_Constant(sub) ==
    Conv(sub \in {Subject1, Subject2}, "AAAAAAAAAAAAAAAAAAAAAQ==")

\* base64.urlsafe_b64encode(uuid.UUID(sub).bytes).decode("ascii")
b64encode_UUID(sub) ==
    CASE sub = Subject1 -> Conv(TRUE, "AAAAAAAAAAAAAAAAAAAAAQ==")
      [] sub = Subject2 -> Conv(TRUE, "AAAAAAAAAAAAAAAAAAAAAg==")
      [] OTHER -> Conv(FALSE, "")

\* the text of a keyring file: {"Anaconda Cloud": {domain: record, ...}}
Entry(domain, rec) == "\"" \o domain \o "\": \"" \o rec \o "\""
KeyringText(entries) == "{\"Anaconda Cloud\": {" \o Join(entries, ", ") \o "}}"
EntryItem(domain, rec) == <<domain, JStr(rec)>>
KeyringValue(items) == JDict(<< <<"Anaconda Cloud", JDict(items)>> >>)

\* the keyrings of the model: one entry, two entries in either order, an
\* entry that lost its padding alone, first and last, an entry without api_key
Keyring1 == <<<<"anaconda.com", Pad(Rec1Code)>>>>
Keyring12 == <<<<"anaconda.cloud", Pad(Rec1Code)>>, <<"anaconda.com", Pad(Rec2Code)>>>>
Keyring21 == <<<<"anaconda.com", Pad(Rec2Code)>>, <<"anaconda.cloud", Pad(Rec1Code)>>>>
KeyringBad == <<<<"anaconda.com", Rec1Code>>>>
KeyringBad1 == <<<<"anaconda.cloud", Rec1Code>>, <<"anaconda.com", Pad(Rec2Code)>>>>
Keyring1Bad == <<<<"anaconda.cloud", Pad(Rec1Code)>>, <<"anaconda.com", Rec2Code>>>>
KeyringNoKey == <<<<"anaconda.com", Pad(RecNoKeyCode)>>>>
Keyrings ==
    {Keyring1, Keyring12, Keyring21, KeyringBad, KeyringBad1, Keyring1Bad,
     KeyringNoKey}

\* keyrings with an entry of another domain, as _keyring_data of the tests
\* builds them: the other domain first, with the credential that expires last
KeyringAll ==
    <<<<"random.domain", Pad(Rec3Code)>>, <<"anaconda.cloud", Pad(Rec2Code)>>,
      <<"anaconda.com", Pad(Rec1Code)>>>>
KeyringNoCom == <<<<"random.domain", Pad(Rec3Code)>>, <<"anaconda.cloud", Pad(Rec1Code)>>>>
KeyringOther == <<<<"random.domain", Pad(Rec3Code)>>>>
DomainKeyrings == {KeyringAll, KeyringNoCom, KeyringOther}

TextOf(keyring) ==
    KeyringText([i \in 1..Len(keyring) |-> Entry(keyring[i][1], keyring[i][2])])
ValueOf(keyring) ==
    KeyringValue([i \in 1..Len(keyring) |-> EntryItem(keyring[i][1], keyring[i][2])])

KeyringNotCloud == "{\"Anaconda Cloud\": [\"anaconda.com\"]}"
KeyringNullCloud == "{\"Anaconda Cloud\": null}"

\* JSON text -> the value it denotes
Json ==
    {<<HeaderJWTText, JDict(<< <<"typ", JStr("JWT")>> >>)>>,
     <<HeaderJWSText, JDict(<< <<"typ", JStr("JWS")>> >>)>>,
     <<Payload1Text, JDict(<< <<"exp", JInt(2000)>>, <<"sub", JStr(Subject1)>> >>)>>,
     <<Payload2Text, JDict(<< <<"exp", JInt(4000)>>, <<"sub", JStr(Subject2)>> >>)>>,
     <<PayloadNoSubText, JDict(<< <<"exp", JInt(2000)>> >>)>>,
     <<PayloadBadSubText, JDict(<< <<"exp", JInt(2000)>>, <<"sub", JStr("nobody")>> >>)>>,
     <<PayloadNoExpText, JDict(<< <<"exp", JInt(0)>>, <<"sub", JStr(Subject1)>> >>)>>,
     <<PayloadListText, JList(<<>>)>>,
     <<HeaderNoTypText, JDict(<< <<"alg", JStr("RS256")>> >>)>>,
     <<Payload1LateText, JDict(<< <<"exp", JInt(4000)>>, <<"sub", JStr(Subject1)>> >>)>>,
     <<PayloadBoolExpText, JDict(<< <<"exp", JBool(TRUE)>>, <<"sub", JStr(Subject1)>> >>)>>,
     <<PayloadStrExpText, JDict(<< <<"exp", JStr("2000")>>, <<"sub", JStr(Subject1)>> >>)>>,
     <<PayloadEmptySubText, JDict(<< <<"exp", JInt(4000)>>, <<"sub", JStr("")>> >>)>>,
     <<PayloadNumSubText, JDict(<< <<"exp", JInt(4000)>>, <<"sub", JInt(5)>> >>)>>,
     <<RecText(Jwt1), JDict(<< <<"api_key", JStr(Jwt1)>> >>)>>,
     <<RecText(Jwt2), JDict(<< <<"api_key", JStr(Jwt2)>> >>)>>,
     <<RecText(Jwt3), JDict(<< <<"api_key", JStr(Jwt3)>> >>)>>,
     <<RecNoKeyText, JDict(<< <<"domain", JStr("anaconda.com")>> >>)>>,
     <<"{}", JDict(<<>>)>>,
     <<KeyringNotCloud, JDict(<< <<"Anaconda Cloud", JList(<<JStr("anaconda.com")>>)>> >>)>>,
     <<KeyringNullCloud, JDict(<< <<"Anaconda Cloud", JNull>> >>)>>}
    \cup {<<TextOf(k), ValueOf(k)>> : k \in Keyrings \cup DomainKeyrings}

\* json.loads(s)
json_loads(s) ==
    IF \E e \in Json : e[1] = s
    THEN Conv(TRUE, (CHOOSE e \in Json : e[1] = s)[2])
    ELSE Conv(FALSE, JNull)

-----------------------------------------------------------------------------
(* tokens.py: the cloud-login token *)

\* package version: anaconda_anon_usage.__version__
__version__ == "0.7.5"

\* The state of the process that a token function reads and changes.
Process(f, d, c, n, w) ==
    [fs |-> f, DEFERRED |-> d, CACHE |-> c, urandom |-> n, written |-> w]

\* The outcome of a call: the value returned, the exception it ended in
\* ("" when it returned) and the process state it leaves.
Out(v, e, p) == [val |-> v, exc |-> e, p |-> p]

\* r, or what F makes of it when r did not end in an exception
Then(r, F(_)) == IF r.exc # "" THEN r ELSE F(r)

\* os.environ.get(name)
Getenv(name) == IF name \in DOMAIN environ THEN environ[name] ELSE None

\* The result of _jwt_to_token: (token, exp)
JwtResult(token, exp) == [token |-> token, exp |-> exp]
JwtNone == JwtResult(None, 0)

\* the checks of _jwt_to_token on the decoded header and payload
JwtChecked(header, payload) ==
    IF header.ty # "dict" THEN JwtNone
    ELSE IF ~(JGet(header, "typ").ty = "str" /\ JGet(header, "typ").v = "JWT")
    THEN JwtNone
    ELSE IF payload.ty # "dict" THEN JwtNone
    ELSE
    With(JGet(payload, "exp"), LAMBDA exp :
    With(JGet(payload, "sub"), LAMBDA sub :
        IF ~(exp.ty \in {"int", "bool"} /\ exp.v > 0) THEN JwtNone
        ELSE IF ~JTruthy(sub) \/ sub.ty # "str" THEN JwtNone
        ELSE With(b64encode_UUID(sub.v), LAMBDA enc :
             IF ~enc.ok THEN JwtNone
             ELSE JwtResult(StripEq(enc.v), exp.v))))

\* _jwt_to_token(s) of tokens.py; every exception inside is caught
_jwt_to_token(s) ==
    IF ~JTruthy(s) THEN JwtNone
    ELSE IF s.ty # "str" THEN JwtNone
    ELSE
    With(SplitOn(s.v, "."), LAMBDA parts :
        IF Len(parts) # 3 \/ \E i \in 1..Len(parts) : parts[i] = "" THEN JwtNone
        ELSE
        With([i \in 1..3 |-> urlsafe_b64decode(parts[i] \o "===")], LAMBDA dec :
            IF \E i \in 1..3 : ~dec[i].ok THEN JwtNone
            ELSE
            With(json_loads(dec[1].v), LAMBDA header :
            With(json_loads(dec[2].v), LAMBDA payload :
                IF ~header.ok \/ ~payload.ok THEN JwtNone
                ELSE JwtChecked(header.v, payload.v)))))

\* "tdata = json.loads(base64.b64decode(rec))["api_key"]" of a keyring entry
ApiKeyOf(rec) ==
    IF rec.ty # "str" THEN Conv(FALSE, JNull)
    ELSE
    With(b64decode(rec.v), LAMBDA dec :
        IF ~dec.ok THEN Conv(FALSE, JNull)
        ELSE
        With(json_loads(dec.v), LAMBDA doc :
            IF ~doc.ok \/ doc.v.ty # "dict" THEN Conv(FALSE, JNull)
            ELSE IF ~\E i \in 1..Len(doc.v.v) : doc.v.v[i][1] = "api_key"
            THEN Conv(FALSE, JNull)
            ELSE Conv(TRUE, JGet(doc.v, "api_key"))))

\* The for loop of anaconda_auth_token over the keyring entries.  The except
\* clause only logs: tdata keeps the value of the entry before, and is not
\* bound when the first entry fails.
RECURSIVE KeyringLoop(_, _, _, _)
KeyringLoop(items, tdata0, token, exp) ==
    IF items = <<>> THEN [val |-> token, exc |-> ""]
    ELSE
    With(ApiKeyOf(Head(items)[2]), LAMBDA k :
    With(IF k.ok THEN k.v ELSE tdata0, LAMBDA tdata :
        IF tdata.ty = "unbound" THEN [val |-> None, exc |-> "UnboundLocalError"]
        ELSE
        With(_jwt_to_token(tdata), LAMBDA t :
            IF t.exp > exp
            THEN KeyringLoop(Tail(items), tdata, t.token, t.exp)
            ELSE KeyringLoop(Tail(items), tdata, token, exp))))

KeyringPath == join(ANACONDA_DIR, "keyring")

\* anaconda_auth_token(), after the environment variable: the keyring file
KeyringToken(p) ==
    With(_read_file(p.fs, p.DEFERRED, KeyringPath, "anaconda keyring", FALSE),
         LAMBDA rd :
        IF rd.raised THEN Out(None, "ImportError", p)
        ELSE IF ~Truthy(rd.val) THEN Out(None, "", p)
        ELSE
        With(json_loads(rd.val), LAMBDA data :
            IF ~data.ok THEN Out(None, "", p)
            ELSE IF ~JTruthy(data.v) \/ data.v.ty # "dict" THEN Out(None, "", p)
            ELSE
            With(JGet(data.v, "Anaconda Cloud"), LAMBDA cloud :
                IF ~JTruthy(cloud) THEN Out(None, "", p)
                ELSE IF cloud.ty # "dict" THEN Out(None, "AttributeError", p)
                ELSE With(KeyringLoop(cloud.v, Unbound, None, 0), LAMBDA r :
                     Out(r.val, r.exc, p)))))

\* the body of anaconda_auth_token()
AuthToken(p) ==
    With(Getenv("ANACONDA_AUTH_API_KEY"), LAMBDA env :
        IF ~Truthy(env) THEN KeyringToken(p)
        ELSE With(_jwt_to_token(JStr(env)), LAMBDA t :
             IF Truthy(t.token) THEN Out(t.token, "", p) ELSE KeyringToken(p)))

-----------------------------------------------------------------------------
(* tokens.py: the system tokens *)

\* the search path used when conda cannot be imported (sys.platform is not
\* win32)
FallbackPath ==
    <<"/etc/conda/.condarc", "/var/lib/conda/.condarc",
      "$XDG_CONFIG_HOME/conda/.condarc", "~/.config/conda/.condarc",
      "~/.conda/.condarc", "~/.condarc", "$CONDARC">>

\* One pass of the for loop of _search_path: the directory an entry of the
\* search path contributes, as a list of at most one element.
SearchDir(f, path) ==
    IF ~EndsWith(path, "/.condarc") THEN <<>>
    ELSE
    With(SplitOn(path, "/"), LAMBDA split :
    With(SubSeq(split, 1, Len(split) - 1), LAMBDA parts :
    With(IF parts[1] = "~" THEN home
         ELSE IF StartsWith(parts[1], "$")
         THEN Getenv(SubSeq(parts[1], 2, Len(parts[1])))
         ELSE parts[1], LAMBDA first :
        IF StartsWith(parts[1], "$") /\ ~Truthy(first) THEN <<>>
        ELSE
        With(Join(<<first>> \o Tail(parts), "/"), LAMBDA dir :
            IF isdir(f, dir) /\ dir # home THEN <<dir>> ELSE <<>>))))

RECURSIVE SearchDirs(_, _)
SearchDirs(f, search_path) ==
    IF search_path = <<>> THEN <<>>
    ELSE SearchDir(f, Head(search_path)) \o SearchDirs(f, Tail(search_path))

\* The cache keys of the functions without a prefix argument, of all_tokens
\* and of token_string.
Key(fn) == [fn |-> fn, prefix |-> None]
AllTokensKey(prefix) == [fn |-> "all_tokens", prefix |-> prefix]
TokenStringKey(prefix, enabled) ==
    [fn |-> "token_string", prefix |-> prefix, enabled |-> enabled]

\* a faulty variant of Store: the value is returned and not kept
Store_Forget(key, r) == r

\* "if key not in CACHE: CACHE[key] = ..." and "return CACHE[key]" of
\* cached.call_if_needed, for a body that has run with the outcome r
Store(key, r) ==
    IF r.exc # "" THEN r
    ELSE Out(r.val, "", [r.p EXCEPT !.CACHE = @ \cup {<<key, r.val>>}])
\* "return CACHE[key]" for a key that is in CACHE
Hit(key, p) == Out(CacheGet(p.CACHE, key), "", p)

\* _search_path(), cached
_search_path(p) ==
    IF InCache(p.CACHE, Key("_search_path")) THEN Hit(Key("_search_path"), p)
    ELSE Store(Key("_search_path"),
               Out(SearchDirs(p.fs, IF conda_importable THEN SEARCH_PATH
                                    ELSE FallbackPath), "", p))

\* re.match(VALID_TOKEN_RE, t): "$" also matches before a newline that ends t
TokenChars == Chars(Lowercase) \cup Chars(Uppercase) \cup Chars(Digits) \cup {"_", "-"}
re_match(t) ==
    With(IF EndsWith(t, "\n") THEN SubSeq(t, 1, Len(t) - 1) ELSE t, LAMBDA body :
        /\ Len(body) \in 1..36
        /\ \A i \in 1..Len(body) : SubSeq(body, i, i) \in TokenChars)

\* [t for t in tokens if re.match(VALID_TOKEN_RE, t)]
RECURSIVE Valid(_)
Valid(tokens) ==
    IF tokens = <<>> THEN <<>>
    ELSE IF re_match(Head(tokens)) THEN <<Head(tokens)>> \o Valid(Tail(tokens))
    ELSE Valid(Tail(tokens))

\* The for loop of _system_tokens over the search path: the values read, in
\* order, and whether a read ended in an exception.
RECURSIVE ReadTokens(_, _, _, _, _)
ReadTokens(f, deferred, paths, fname, what) ==
    IF paths = <<>> THEN [vals |-> <<>>, raised |-> FALSE]
    ELSE IF ~isfile(f, join(Head(paths), fname))
    THEN ReadTokens(f, deferred, Tail(paths), fname, what)
    ELSE
    With(_read_file(f, deferred, join(Head(paths), fname), what \o " token", TRUE),
         LAMBDA rd :
        IF rd.raised THEN [vals |-> <<>>, raised |-> TRUE]
        ELSE
        With(ReadTokens(f, deferred, Tail(paths), fname, what), LAMBDA rest :
            [vals |-> <<rd.val>> \o rest.vals, raised |-> rest.raised]))

\* a faulty variant of Dedup: every value found is kept
Dedup_Keep(tokens) == NonEmpty(tokens)

\* "tokens = list(dict.fromkeys(t for t in tokens if t))"
Dedup(tokens) == fromkeys(NonEmpty(tokens), {})

\* _system_tokens(fname, what)
_system_tokens(p, fname, what) ==
    With(Getenv("ANACONDA_ANON_USAGE_" \o upper(fname)), LAMBDA t_token :
    With(_search_path(p), LAMBDA sp :
    With(ReadTokens(sp.p.fs, sp.p.DEFERRED, sp.val, fname, what), LAMBDA rd :
        IF rd.raised THEN Out(<<>>, "ImportError", sp.p)
        ELSE Out(Valid(Dedup((IF Truthy(t_token) THEN <<t_token>> ELSE <<>>)
                             \o rd.vals)), "", sp.p))))

\* organization_tokens(), cached
organization_tokens(p) ==
    IF InCache(p.CACHE, Key("organization_tokens"))
    THEN Hit(Key("organization_tokens"), p)
    ELSE Store(Key("organization_tokens"),
               _system_tokens(p, ORG_TOKEN_NAME, "organization"))

\* machine_tokens(), cached
machine_tokens(p) ==
    IF InCache(p.CACHE, Key("machine_tokens")) THEN Hit(Key("machine_tokens"), p)
    ELSE Store(Key("machine_tokens"),
               _system_tokens(p, MACHINE_TOKEN_NAME, "machine"))

-----------------------------------------------------------------------------
(* tokens.py: the token set and the token string *)

\* version_token(), cached
version_token(p) ==
    IF InCache(p.CACHE, Key("version_token")) THEN Hit(Key("version_token"), p)
    ELSE Store(Key("version_token"), Out(__version__, "", p))

\* a faulty variant of session_token: not cached
session_token_Fresh(p) ==
    Out(_random_token(p.urandom + 1), "", [p EXCEPT !.urandom = @ + 1])

\* session_token(), cached
session_token(p) ==
    IF InCache(p.CACHE, Key("session_token")) THEN Hit(Key("session_token"), p)
    ELSE Store(Key("session_token"),
               Out(_random_token(p.urandom + 1), "",
                   [p EXCEPT !.urandom = @ + 1]))

\* anaconda_auth_token(), cached
anaconda_auth_token(p) ==
    IF InCache(p.CACHE, Key("anaconda_auth_token"))
    THEN Hit(Key("anaconda_auth_token"), p)
    ELSE Store(Key("anaconda_auth_token"), AuthToken(p))

\* the outcome of a call of _saved_token in a process
Saved(r, p) ==
    Out(IF r.ret = Raised THEN None ELSE r.ret,
        IF r.ret = Raised THEN "ImportError" ELSE "",
        [p EXCEPT !.fs = r.fs, !.DEFERRED = r.deferred,
                  !.urandom = @ + r.draws, !.written = @ \cup r.wrote])

\* client_token(), cached
cached_client_token(p) ==
    IF InCache(p.CACHE, ClientSite) THEN Hit(ClientSite, p)
    ELSE Store(ClientSite,
               Saved(client_token(p.fs, p.DEFERRED, p.urandom + 1), p))

\* environment_token(prefix), cached
cached_environment_token(p, prefix) ==
    IF InCache(p.CACHE, EnvSite(prefix)) THEN Hit(EnvSite(prefix), p)
    ELSE Store(EnvSite(prefix),
               Saved(environment_token(p.fs, p.DEFERRED, prefix, p.urandom + 1), p))

\* the Tokens namedtuple
Tokens(version, client, session, environment, anaconda_cloud, organization, machine) ==
    [version |-> version, client |-> client, session |-> session,
     environment |-> environment, anaconda_cloud |-> anaconda_cloud,
     organization |-> organization, machine |-> machine]

\* the body of all_tokens(prefix): the arguments are evaluated in order
AllTokens(p, prefix) ==
    Then(version_token(p), LAMBDA v :
    Then(cached_client_token(v.p), LAMBDA c :
    Then(session_token(c.p), LAMBDA s :
    Then(cached_environment_token(s.p, prefix), LAMBDA e :
    Then(anaconda_auth_token(e.p), LAMBDA a :
    Then(organization_tokens(a.p), LAMBDA o :
    Then(machine_tokens(o.p), LAMBDA m :
        Out(Tokens(v.val, c.val, s.val, e.val, a.val, o.val, m.val), "", m.p))))))))

\* all_tokens(prefix), cached
all_tokens(p, prefix) ==
    IF InCache(p.CACHE, AllTokensKey(prefix)) THEN Hit(AllTokensKey(prefix), p)
    ELSE Store(AllTokensKey(prefix), AllTokens(p, prefix))

\* "x/" + t for t in tokens
Fields(letter, tokens) == [i \in 1..Len(tokens) |-> letter \o "/" \o tokens[i]]

\* a faulty variant of Parts: a field is made of every token, empty or not
Parts_All(values) ==
    <<"c/" \o Or(values.client, ""), "s/" \o values.session,
      "e/" \o Or(values.environment, "")>>
    \o Fields("o", values.organization) \o Fields("m", values.machine)

\* a faulty variant of Parts: the machine fields come before the
\* organization fields
Parts_Swapped(values) ==
    (IF Truthy(values.client) THEN <<"c/" \o values.client>> ELSE <<>>)
    \o (IF Truthy(values.session) THEN <<"s/" \o values.session>> ELSE <<>>)
    \o (IF Truthy(values.environment) THEN <<"e/" \o values.environment>> ELSE <<>>)
    \o (IF Truthy(values.anaconda_cloud)
        THEN <<"a/" \o values.anaconda_cloud>> ELSE <<>>)
    \o Fields("m", values.machine)
    \o Fields("o", values.organization)

\* the fields token_string appends to parts when enabled
Parts(values) ==
    (IF Truthy(values.client) THEN <<"c/" \o values.client>> ELSE <<>>)
    \o (IF Truthy(values.session) THEN <<"s/" \o values.session>> ELSE <<>>)
    \o (IF Truthy(values.environment) THEN <<"e/" \o values.environment>> ELSE <<>>)
    \o (IF Truthy(values.anaconda_cloud)
        THEN <<"a/" \o values.anaconda_cloud>> ELSE <<>>)
    \o Fields("o", values.organization)
    \o Fields("m", values.machine)

\* a faulty variant of TokenString: the tokens are assembled when disabled
TokenString_Always(p, prefix, enabled) ==
    Then(all_tokens(p, prefix), LAMBDA r :
        Out(Join(<<"aau/" \o __version__>> \o Parts(r.val), " "), "", r.p))

\* the body of token_string(prefix, enabled)
TokenString(p, prefix, enabled) ==
    IF ~enabled THEN Out(Join(<<"aau/" \o __version__>>, " "), "", p)
    ELSE Then(all_tokens(p, prefix), LAMBDA r :
         Out(Join(<<"aau/" \o __version__>> \o Parts(r.val), " "), "", r.p))

\* token_string(prefix, enabled), cached
token_string(p, prefix, enabled) ==
    IF InCache(p.CACHE, TokenStringKey(prefix, enabled))
    THEN Hit(TokenStringKey(prefix, enabled), p)
    ELSE Store(TokenStringKey(prefix, enabled), TokenString(p, prefix, enabled))

-----------------------------------------------------------------------------
(* api_key.py *)

\* s.lower()
RECURSIVE lower(_)
lower(s) ==
    IF s = "" THEN ""
    ELSE (IF \E i \in 1..26 : SubSeq(Uppercase, i, i) = Head(s)
          THEN With(CHOOSE i \in 1..26 : SubSeq(Uppercase, i, i) = Head(s),
                    LAMBDA i : SubSeq(Lowercase, i, i))
          ELSE Head(s)) \o lower(Tail(s))

\* expanduser(path)
expanduser(path) ==
    IF path = "~" THEN home
    ELSE IF StartsWith(path, "~/") THEN home \o SubSeq(path, 2, Len(path))
    ELSE path

\* The result of api_key._jwt_to_token: (s, token), or (None, None)
KeyResult(api_key, token) == [api_key |-> api_key, token |-> token]
KeyNone == KeyResult(None, None)

\* the checks of api_key._jwt_to_token on the decoded header and payload
KeyChecked(s, header, payload) ==
    IF header.ty # "dict" THEN KeyNone
    ELSE IF ~(JGet(header, "typ").ty = "str" /\ JGet(header, "typ").v = "JWT")
    THEN KeyNone
    ELSE IF payload.ty # "dict" THEN KeyNone
    ELSE
    With(JGet(payload, "exp"), LAMBDA exp :
    With(JGet(payload, "sub"), LAMBDA sub :
        IF ~(exp.ty \in {"int", "bool"} /\ exp.v > 0) THEN KeyNone
        ELSE IF exp.v < now THEN KeyNone
        ELSE IF ~JTruthy(sub) \/ sub.ty # "str" THEN KeyNone
        ELSE With(b64encode_UUID(sub.v), LAMBDA enc :
             IF ~enc.ok THEN KeyNone
             ELSE KeyResult(s, StripEq(enc.v)))))

\* _jwt_to_token(s) of api_key.py; every exception inside is caught
api_key_jwt_to_token(s) ==
    IF ~JTruthy(s) THEN KeyNone
    ELSE IF s.ty # "str" THEN KeyNone
    ELSE
    With(SplitOn(s.v, "."), LAMBDA parts :
        IF Len(parts) # 3 \/ \E i \in 1..Len(parts) : parts[i] = "" THEN KeyNone
        ELSE
        With([i \in 1..3 |-> urlsafe_b64decode(parts[i] \o "===")], LAMBDA dec :
            IF \E i \in 1..3 : ~dec[i].ok THEN KeyNone
            ELSE
            With(json_loads(dec[1].v), LAMBDA header :
            With(json_loads(dec[2].v), LAMBDA payload :
                IF ~header.ok \/ ~payload.ok THEN KeyNone
                ELSE KeyChecked(s.v, header.v, payload.v)))))

\* _env(key, what)
_env(key, what) ==
    With(Getenv(upper(key)), LAMBDA result :
        IF result = None THEN Getenv(lower(key)) ELSE result)

\* _file(fpath, what): None when there is no file, "" when it cannot be read
_file(f, fpath, what) ==
    IF ~exists(f, fpath) \/ ~isdir(f, dirname(fpath)) THEN None
    ELSE IF isfile(f, fpath) /\ f[fpath].mode \in {"rw", "ro"}
    THEN rstrip(f[fpath].data)
    ELSE ""

\* _secrets_dir(), cached; ANACONDA_SECRETS_DIR is not set
_secrets_dir(p) ==
    IF InCache(p.CACHE, Key("_secrets_dir")) THEN Hit(Key("_secrets_dir"), p)
    ELSE Store(Key("_secrets_dir"),
               Out(IF isdir(p.fs, SecretsDir) THEN SecretsDir ELSE None, "", p))

\* _secret(key, what)
_secret(p, key, what) ==
    Then(_secrets_dir(p), LAMBDA path :
        IF ~Truthy(path.val) THEN Out(None, "", path.p)
        ELSE With(_file(path.p.fs, join(path.val, key), what \o " secret"),
                  LAMBDA result :
             IF ~Truthy(result)
             THEN Out(_file(path.p.fs, join(path.val, lower(key)), what \o " secret"),
                      "", path.p)
             ELSE Out(result, "", path.p)))

\* "_env(key, what) or _secret(key, what)" of _domain, _api_key and _keyring
EnvOrSecret(p, key, what) ==
    With(_env(key, what), LAMBDA result :
        IF Truthy(result) THEN Out(result, "", p) ELSE _secret(p, key, what))

\* _domain()
_domain(p) == EnvOrSecret(p, "ANACONDA_AUTH_DOMAIN", "Anaconda domain")
\* _api_key()
_api_key(p) == EnvOrSecret(p, "ANACONDA_AUTH_API_KEY", "API key")

\* a Python value read from the environment or a file, as a JSON-typed value
ToJ(x) == IF x = None THEN JNull ELSE JStr(x)

\* "domain in all_domains" raises TypeError unless all_domains is a
\* container; in a str it is the substring test
IsContainer(all_domains) == all_domains.ty \in {"dict", "list", "str"}
Contains(all_domains, domain) ==
    CASE all_domains.ty = "dict" ->
            \E i \in 1..Len(all_domains.v) : all_domains.v[i][1] = domain
      [] all_domains.ty = "list" ->
            \E i \in 1..Len(all_domains.v) :
                all_domains.v[i].ty = "str" /\ all_domains.v[i].v = domain
      [] OTHER ->
            \E i \in 1..Len(all_domains.v) :
                SubSeq(all_domains.v, i, i + Len(domain) - 1) = domain

\* a faulty variant of DefaultDomain: anaconda.cloud is preferred
DefaultDomain_CloudFirst(all_domains) ==
    IF ~IsContainer(all_domains) THEN Conv(FALSE, "")
    ELSE IF Contains(all_domains, "anaconda.cloud") THEN Conv(TRUE, "anaconda.cloud")
    ELSE Conv(TRUE, "anaconda.com")

\* "for domain in ("anaconda.com", "anaconda.cloud"): ... else: ..." of
\* _keyring_to_api_key; not ok when the test raises TypeError
DefaultDomain(all_domains) ==
    IF ~IsContainer(all_domains) THEN Conv(FALSE, "")
    ELSE IF Contains(all_domains, "anaconda.com") THEN Conv(TRUE, "anaconda.com")
    ELSE IF Contains(all_domains, "anaconda.cloud") THEN Conv(TRUE, "anaconda.cloud")
    ELSE Conv(TRUE, "anaconda.com")

\* "json.loads(base64.b64decode(rec + "==="))["api_key"]", "" when it raises
RecApiKey(rec) ==
    IF rec.ty # "str" THEN JStr("")
    ELSE
    With(b64decode(rec.v \o "==="), LAMBDA dec :
        IF ~dec.ok THEN JStr("")
        ELSE
        With(json_loads(dec.v), LAMBDA doc :
            IF ~doc.ok \/ doc.v.ty # "dict" THEN JStr("")
            ELSE IF ~\E i \in 1..Len(doc.v.v) : doc.v.v[i][1] = "api_key"
            THEN JStr("")
            ELSE JGet(doc.v, "api_key")))

\* _keyring_to_api_key from "rec = all_domains.get(domain)"
SelectEntry(p, all_domains, domain) ==
    IF ~domain.ok THEN Out(JNull, "TypeError", p)
    ELSE IF all_domains.ty # "dict" THEN Out(JNull, "AttributeError", p)
    ELSE IF ~JTruthy(JGet(all_domains, domain.v)) THEN Out(JStr(""), "", p)
    ELSE Out(RecApiKey(JGet(all_domains, domain.v)), "", p)

\* _keyring_to_api_key(keyring, domain): keyring is None or the text found
_keyring_to_api_key(p, keyring, domain) ==
    IF keyring = None THEN Out(JNull, "", p)
    ELSE
    With(IF keyring # "" THEN json_loads(keyring) ELSE Conv(TRUE, JStr("")),
         LAMBDA doc :
        IF ~doc.ok THEN Out(JStr(""), "", p)
        ELSE IF doc.v.ty # "dict" THEN Out(JStr(""), "", p)
        ELSE
        With(JGet(doc.v, "Anaconda Cloud"), LAMBDA all_domains :
            IF Truthy(domain) THEN SelectEntry(p, all_domains, Conv(TRUE, domain))
            ELSE Then(_domain(p), LAMBDA d :
                 IF Truthy(d.val) THEN SelectEntry(d.p, all_domains, Conv(TRUE, d.val))
                 ELSE SelectEntry(d.p, all_domains, DefaultDomain(all_domains)))))

\* _module(): anaconda_auth is consulted when it can be imported
_module == ToJ(anaconda_auth)

\* _keyring(); ANACONDA_KEYRING_PATH is not set
_keyring(p) ==
    Then(EnvOrSecret(p, "ANACONDA_AUTH_KEYRING", "keyring"), LAMBDA result :
        IF Truthy(result.val) THEN _keyring_to_api_key(result.p, result.val, None)
        ELSE _keyring_to_api_key(
                 result.p,
                 _file(result.p.fs, expanduser("~/.anaconda/keyring"), "keyring"),
                 None))

\* the try block of get_api_key: the API key found, None after an exception
\* that left none
FindApiKey(p) ==
    With(IF Truthy(Getenv("ANACONDA_ANON_USAGE_STANDALONE")) THEN JNull
         ELSE _module, LAMBDA m :
        IF m.ty # "null" THEN Out(m, "", p)
        ELSE
        With(_api_key(p), LAMBDA k :
            IF k.val # None THEN Out(ToJ(k.val), "", k.p)
            ELSE With(_keyring(k.p), LAMBDA r :
                 IF r.exc # "" THEN Out(JNull, "", r.p) ELSE r)))

\* the body of get_api_key()
GetApiKey(p) ==
    With(FindApiKey(p), LAMBDA api_key :
        IF JTruthy(api_key.val)
        THEN Out(api_key_jwt_to_token(api_key.val), "", api_key.p)
        ELSE Out(KeyNone, "", api_key.p))

\* get_api_key(), cached
get_api_key(p) ==
    IF InCache(p.CACHE, Key("get_api_key")) THEN Hit(Key("get_api_key"), p)
    ELSE Store(Key("get_api_key"), GetApiKey(p))

-----------------------------------------------------------------------------
(* One process that assembles token strings: calls through the cache, while *)
(* the files, the environment and the clock change around it                *)

\* system tokens: well formed, and not
OrgA == "org-A_1"
OrgB == Rep("b", 36)
OrgC == "orgC"
MchA == "machine-A"
MchB == "machine-B"
InsA == "installer-A"
Spaced == "invalid token"
TooLong == Rep("x", 37)

OrgPath(d) == join(d, ORG_TOKEN_NAME)
MachinePath(d) == join(d, MACHINE_TOKEN_NAME)

\* conda's search path, in part, and one that lists a directory twice
CondaPath ==
    <<"/etc/conda/.condarc", "/etc/conda/condarc", "/etc/conda/condarc.d/",
      "/var/lib/conda/.condarc", "/var/lib/conda/condarc",
      "$XDG_CONFIG_HOME/conda/.condarc", "~/.conda/.condarc", "~/.condarc",
      "$CONDARC">>
TwicePath ==
    <<"/var/lib/conda/.condarc", "/etc/conda/.condarc", "/var/lib/conda/.condarc">>

\* the three directories of the search path, and what they may hold
SystemFs ==
    {[EmptyFs EXCEPT !["/etc/conda"] = DirNode("rw"),
                     !["/var/lib/conda"] = DirNode("rw"),
                     !["/home/.config/conda"] = DirNode("rw"),
                     ![OrgPath("/etc/conda")] = o1,
                     ![OrgPath("/var/lib/conda")] = o2,
                     ![OrgPath("/home/.config/conda")] = o3,
                     ![MachinePath("/etc/conda")] = m1] :
        o1 \in {Absent, FileNode(OrgA \o "\n# Anaconda organization token\n", "rw"),
                FileNode(Spaced, "rw")},
        o2 \in {Absent, FileNode(OrgA, "rw"), FileNode(OrgB, "rw")},
        o3 \in {Absent, FileNode(OrgC, "rw")},
        m1 \in {Absent, FileNode(MchB, "rw")}}

SystemEnviron ==
    {[NoEnviron EXCEPT !["ANACONDA_ANON_USAGE_ORG_TOKEN"] = e[1],
                       !["ANACONDA_ANON_USAGE_MACHINE_TOKEN"] = e[2],
                       !["ANACONDA_ANON_USAGE_INSTALLER_TOKEN"] = e[3],
                       !["XDG_CONFIG_HOME"] = e[4]] :
        e \in {<<None, None, None, None>>,
               <<OrgB, MchA, InsA, "/home/.config">>,
               <<Spaced, TooLong, InsA, None>>,
               <<OrgA \o "\n", None, None, "/home/.config">>}}

\* the token files of a process that has run before, or not
TokenFs ==
    {[EmptyFs EXCEPT ![CONFIG_DIR] = c[1],
                     ![ClientPath] = c[2],
                     ![ClientPath \o "_host"] = c[3],
                     ![join(SysPrefix, "etc")] = e[1],
                     ![EnvPath(SysPrefix)] = e[2]] :
        c \in {<<Absent, Absent, Absent>>,
               <<DirNode("rw"), FileNode(Tok22, "rw"), FileNode(HereStr, "rw")>>,
               <<DirNode("rw"), FileNode(Tok22, "ro"), FileNode(ElsewhereStr, "rw")>>,
               <<DirNode("ro"), Absent, Absent>>},
        e \in {<<Absent, Absent>>,
               <<DirNode("rw"), FileNode(Tok23, "rw")>>,
               <<DirNode("rw"), FileNode(Short, "ro")>>}}

\* what may be found at the path of the keyring file
KeyringNodes ==
    {Absent, FileNode(TextOf(Keyring1), "no")}
    \cup {FileNode(t, "rw") : t \in {"", "{", "[]", "{}", KeyringNotCloud,
                                      KeyringNullCloud}}
    \cup {FileNode(TextOf(k), "rw") : k \in Keyrings}
KeyringFs ==
    {[EmptyFs EXCEPT ![ANACONDA_DIR] = DirNode("rw"), ![KeyringPath] = k] :
        k \in KeyringNodes}

\* a credential of two segments, and one whose header is not a JWT header
JwtShort == HeaderJWT \o "." \o Payload1
JwtJWS == Jwt(HeaderJWS, Payload1, Signature)
ApiKeys == {None, "", Jwt1, Jwt2, JwtShort, JwtJWS}

\* The cache keys a run exercises: the persisted tokens and the token
\* string, the system tokens, or the cloud-login token.
TokenSites ==
    {ClientSite, EnvSite(None), TokenStringKey(None, TRUE),
     TokenStringKey(None, FALSE), TokenStringKey("/env", TRUE)}
SystemSites ==
    {Key("organization_tokens"), Key("machine_tokens"), TokenStringKey(None, TRUE)}
CloudSites == {Key("anaconda_auth_token"), TokenStringKey(None, TRUE)}
\* the API key of api_key.py
KeySites == {Key("get_api_key")}
\* the host process that patch.py has patched
PatchSites == {Key("session_token"), ClientSite}

\* the record of a call of a key that found the cache c and had the outcome r
CalledKey(key, r, c) ==
    [key |-> key, val |-> r.val, exc |-> r.exc,
     new |-> {e[1] : e \in r.p.CACHE \ c}]

\* the cached function of a key, called in process state p
Dispatch(key, p) ==
    CASE key.fn = "client_token" -> cached_client_token(p)
      [] key.fn = "environment_token" -> cached_environment_token(p, key.prefix)
      [] key.fn = "session_token" -> session_token(p)
      [] key.fn = "anaconda_auth_token" -> anaconda_auth_token(p)
      [] key.fn = "organization_tokens" -> organization_tokens(p)
      [] key.fn = "machine_tokens" -> machine_tokens(p)
      [] key.fn = "get_api_key" -> get_api_key(p)
      [] OTHER -> token_string(p, key.prefix, key.enabled)

\* One call of a cached function, from the check of CACHE to the return.
CallCached(key) ==
    /\ phase = "running"
    /\ \E r \in {Dispatch(key, Process(fs, DEFERRED, CACHE, urandom, written))} :
          /\ r.p.urandom <= MaxDraws
          /\ fs' = r.p.fs
          /\ DEFERRED' = r.p.DEFERRED
          /\ CACHE' = r.p.CACHE
          /\ urandom' = r.p.urandom
          /\ written' = r.p.written
          /\ returned' = IF r.exc # "" THEN returned
                         ELSE returned \cup {<<key, r.val>>}
          /\ called' = CalledKey(key, r, CACHE)
    /\ UNCHANGED extvars
    /\ UNCHANGED <<LOCK, READ_CHAOS, WRITE_CHAOS, DEBUG, conda_importable,
                   anaconda_auth, node, phase, sites, pc, last, runs, exitlog,
                   environ, SEARCH_PATH, now>>

\* ctx._old_user_agent: the user agent of the host
OldUserAgents == {"conda/24.1.2 requests/2.31.0", ""}

\* a faulty variant of _new_user_agent: there is no try block
_new_user_agent_Unguarded(p, old_user_agent, prefix, enabled) ==
    With(token_string(p, prefix, enabled), LAMBDA r :
        IF r.exc # "" THEN r
        ELSE IF Truthy(r.val) THEN Out(old_user_agent \o " " \o r.val, "", r.p)
        ELSE Out(old_user_agent, "", r.p))

\* _new_user_agent(ctx) of patch.py, for the prefix and the setting
\* context.anaconda_anon_usage it finds
_new_user_agent(p, old_user_agent, prefix, enabled) ==
    With(token_string(p, prefix, enabled), LAMBDA r :
        IF r.exc # "" THEN Out(old_user_agent, "", r.p)
        ELSE IF Truthy(r.val) THEN Out(old_user_agent \o " " \o r.val, "", r.p)
        ELSE Out(old_user_agent, "", r.p))

\* The host asks for its user agent.  patch.py imports conda, so it runs
\* only where conda can be imported.
NewUserAgent(prefix, enabled) ==
    /\ phase = "running"
    /\ conda_importable
    /\ \E ua \in OldUserAgents :
       \E r \in {_new_user_agent(Process(fs, DEFERRED, CACHE, urandom, written),
                                 ua, prefix, enabled)} :
          /\ r.p.urandom <= MaxDraws
          /\ fs' = r.p.fs
          /\ DEFERRED' = r.p.DEFERRED
          /\ CACHE' = r.p.CACHE
          /\ urandom' = r.p.urandom
          /\ written' = r.p.written
          /\ called' = CalledKey([fn |-> "_new_user_agent", prefix |-> prefix,
                                  enabled |-> enabled, ua |-> ua], r, CACHE)
    /\ UNCHANGED extvars
    /\ UNCHANGED <<LOCK, READ_CHAOS, WRITE_CHAOS, DEBUG, conda_importable,
                   anaconda_auth, node, phase, sites, pc, last, returned, runs,
                   exitlog, environ, SEARCH_PATH, now>>

\* the files that change from outside while the process runs
Outside ==
    IF sites = TokenSites THEN {ClientPath, EnvPath(SysPrefix)}
    ELSE IF sites = SystemSites THEN {OrgPath("/etc/conda")}
    ELSE IF sites = PatchSites THEN {ClientPath, KeyringPath}
    ELSE {KeyringPath}

\* what another process, or the administrator, may leave at a path
Rewritten(path) ==
    IF path = KeyringPath
    THEN {Absent, FileNode(TextOf(Keyring21), "rw")}
    ELSE IF path = OrgPath("/etc/conda")
    THEN {FileNode(OrgC, "rw")}
    ELSE {FileNode(Rep("t", TOKEN_LENGTH), "rw")}

\* A file of the process is deleted or replaced from outside.
Rewrite(path) ==
    /\ phase = "running"
    /\ path \in Outside
    /\ isdir(fs, dirname(path))
    /\ \E nd \in Rewritten(path) :
          /\ fs[path] # nd
          /\ fs' = [fs EXCEPT ![path] = nd]
    /\ called' = NoCalled
    /\ UNCHANGED extvars
    /\ UNCHANGED <<DEFERRED, CACHE, LOCK, READ_CHAOS, WRITE_CHAOS, DEBUG,
                   conda_importable, anaconda_auth, node, urandom, phase, sites,
                   pc, last, written, returned, runs, exitlog, environ, SEARCH_PATH, now>>

\* the values an environment variable may be changed to
Changed(name) ==
    IF name = "ANACONDA_AUTH_API_KEY" THEN {None, Jwt2}
    ELSE {}

\* os.environ is changed (monkeypatch.setenv in the tests).
Setenv(name) ==
    /\ phase = "running"
    /\ sites = CloudSites
    /\ \E v \in Changed(name) :
          /\ environ[name] # v
          /\ environ' = [environ EXCEPT ![name] = v]
    /\ called' = NoCalled
    /\ UNCHANGED extvars
    /\ UNCHANGED <<fs, DEFERRED, CACHE, LOCK, READ_CHAOS, WRITE_CHAOS, DEBUG,
                   conda_importable, anaconda_auth, node, urandom, phase, sites,
                   pc, last, written, returned, runs, exitlog, SEARCH_PATH, now>>

\* Time passes: the credentials that expire at 2000 have expired.  Only
\* the cloud-login token is derived from something that expires.
Tick ==
    /\ now = 1000
    /\ sites \notin {TokenSites, SystemSites, PatchSites}
    /\ now' = 3000
    /\ called' = NoCalled
    /\ UNCHANGED extvars
    /\ UNCHANGED <<fs, DEFERRED, CACHE, LOCK, READ_CHAOS, WRITE_CHAOS, DEBUG,
                   conda_importable, anaconda_auth, node, urandom, phase, sites,
                   pc, last, written, returned, runs, exitlog, environ, SEARCH_PATH>>

InitA ==
    /\ procs = NoProcs
    /\ Context = NoContext
    /\ sp_dir = NoSpDir
    /\ DEBUG \in BOOLEAN
    /\ conda_importable \in BOOLEAN
    /\ ~(DEBUG /\ conda_importable)
    /\ \/ /\ sites = TokenSites
          /\ fs \in TokenFs
          /\ environ = NoEnviron
          /\ SEARCH_PATH = <<>>
          /\ READ_CHAOS \in ChaosValues
          /\ WRITE_CHAOS = READ_CHAOS
       \/ /\ sites = SystemSites
          /\ fs \in SystemFs
          /\ environ \in SystemEnviron
          /\ SEARCH_PATH \in IF conda_importable THEN {CondaPath, TwicePath}
                            ELSE {<<>>}
          /\ READ_CHAOS = ""
          /\ WRITE_CHAOS = ""
       \/ /\ sites = CloudSites
          /\ fs \in KeyringFs
          /\ environ \in {[NoEnviron EXCEPT !["ANACONDA_AUTH_API_KEY"] = k] :
                              k \in ApiKeys}
          /\ SEARCH_PATH = <<>>
          /\ READ_CHAOS = ""
          /\ WRITE_CHAOS = ""
    /\ now = 1000
    /\ node = 1
    /\ called = NoCalled
    /\ anaconda_auth = None
    /\ DEFERRED = <<>>
    /\ CACHE = {}
    /\ LOCK = 0
    /\ urandom = 0
    /\ phase = "running"
    /\ pc = [t \in Threads |-> Idle]
    /\ last = NoHistory
    /\ written = {}
    /\ returned = {}
    /\ runs = [k \in Keys |-> 0]
    /\ exitlog = <<>>

NextA ==
    \/ \E key \in sites : CallCached(key)
    \/ \E path \in AllPaths : Rewrite(path)
    \/ \E name \in EnvNames : Setenv(name)
    \/ Tick

SpecA == InitA /\ [][NextA]_vars

-----------------------------------------------------------------------------
(* The host process with conda's context patched: it asks for its user      *)
(* agent and for the session token while the files change around it         *)

\* the token files and the keyring the host process may find
PatchFs ==
    {[EmptyFs EXCEPT ![CONFIG_DIR] = c[1],
                     ![ClientPath] = c[2],
                     ![ClientPath \o "_host"] = c[3],
                     ![ANACONDA_DIR] = DirNode("rw"),
                     ![KeyringPath] = k] :
        c \in {<<Absent, Absent, Absent>>,
               <<DirNode("rw"), FileNode(Tok22, "rw"), FileNode(HereStr, "rw")>>},
        k \in {Absent, FileNode(TextOf(Keyring1), "rw"),
               FileNode(TextOf(KeyringBad), "rw"),
               FileNode(KeyringNotCloud, "rw")}}

InitP ==
    /\ procs = NoProcs
    /\ Context = NoContext
    /\ sp_dir = NoSpDir
    /\ DEBUG = FALSE
    /\ conda_importable = TRUE
    /\ sites = PatchSites
    /\ fs \in PatchFs
    /\ environ \in {NoEnviron,
                    [NoEnviron EXCEPT !["ANACONDA_ANON_USAGE_ORG_TOKEN"] = OrgA]}
    /\ SEARCH_PATH = CondaPath
    /\ READ_CHAOS \in ChaosValues
    /\ WRITE_CHAOS = READ_CHAOS
    /\ now = 1000
    /\ node = 1
    /\ called = NoCalled
    /\ anaconda_auth = None
    /\ DEFERRED = <<>>
    /\ CACHE = {}
    /\ LOCK = 0
    /\ urandom = 0
    /\ phase = "running"
    /\ pc = [t \in Threads |-> Idle]
    /\ last = NoHistory
    /\ written = {}
    /\ returned = {}
    /\ runs = [k \in Keys |-> 0]
    /\ exitlog = <<>>

NextP ==
    \/ \E key \in sites : CallCached(key)
    \/ \E enabled \in BOOLEAN : NewUserAgent(SysPrefix, enabled)
    \/ \E path \in AllPaths : Rewrite(path)

SpecP == InitP /\ [][NextP]_vars

-----------------------------------------------------------------------------
(* api_key.py: the credential decoders, the keyring and get_api_key *)

\* the two decoders, and the keyring lookup, called directly (as the tests do)
DecoderSites == {Key("_jwt_to_token")}
KeyringSites == {Key("_keyring_to_api_key")}

\* what a caller may hand to a decoder: nothing, values that are no strings,
\* well-formed credentials, and credentials with one defect each
Credentials ==
    <<JNull, JStr(""), JInt(5), JList(<<>>),
     JStr(Jwt1), JStr(Jwt2), JStr(Jwt3),
     JStr(JwtShort), JStr(Jwt1 \o "." \o Signature),
     JStr(HeaderJWT \o ".." \o Signature),
     JStr(Jwt(HeaderJWT, Payload1, "e")), JStr(Jwt("e", Payload1, Signature)),
     JStr(Jwt(Signature, Payload1, Signature)),
     JStr(Jwt(HeaderJWT, Signature, Signature)),
     JStr(JwtJWS), JStr(Jwt(HeaderNoTyp, Payload1, Signature)),
     JStr(Jwt(PayloadList, Payload1, Signature)),
     JStr(Jwt(HeaderJWT, PayloadList, Signature)),
     JStr(Jwt(HeaderJWT, PayloadNoSub, Signature)),
     JStr(Jwt(HeaderJWT, PayloadBadSub, Signature)),
     JStr(Jwt(HeaderJWT, PayloadEmptySub, Signature)),
     JStr(Jwt(HeaderJWT, PayloadNumSub, Signature)),
     JStr(Jwt(HeaderJWT, PayloadNoExp, Signature)),
     JStr(Jwt(HeaderJWT, PayloadBoolExp, Signature)),
     JStr(Jwt(HeaderJWT, PayloadStrExp, Signature))>>

\* the key under which a direct call of a decoder is recorded
DecoderKey(module, s) ==
    [fn |-> "_jwt_to_token", prefix |-> None, module |-> module, s |-> s]

\* _jwt_to_token(s) of tokens.py is called.
JwtToToken(s) ==
    /\ phase = "running"
    /\ sites = DecoderSites
    /\ called' = [key |-> DecoderKey("tokens", s), val |-> _jwt_to_token(s),
                  exc |-> "", new |-> {}]
    /\ UNCHANGED extvars
    /\ UNCHANGED <<fs, DEFERRED, CACHE, LOCK, READ_CHAOS, WRITE_CHAOS, DEBUG,
                   conda_importable, anaconda_auth, node, urandom, phase, sites,
                   pc, last, written, returned, runs, exitlog, environ,
                   SEARCH_PATH, now>>

\* _jwt_to_token(s) of api_key.py is called.
ApiKeyJwtToToken(s) ==
    /\ phase = "running"
    /\ sites = DecoderSites
    /\ called' = [key |-> DecoderKey("api_key", s), val |-> api_key_jwt_to_token(s),
                  exc |-> "", new |-> {}]
    /\ UNCHANGED extvars
    /\ UNCHANGED <<fs, DEFERRED, CACHE, LOCK, READ_CHAOS, WRITE_CHAOS, DEBUG,
                   conda_importable, anaconda_auth, node, urandom, phase, sites,
                   pc, last, written, returned, runs, exitlog, environ,
                   SEARCH_PATH, now>>

\* the key under which a direct call of _keyring_to_api_key is recorded
KeyringKey(keyring, domain) ==
    [fn |-> "_keyring_to_api_key", prefix |-> None, keyring |-> keyring,
     domain |-> domain]

\* the keyrings and the domains _keyring_to_api_key is called with
KeyringTexts ==
    {TextOf(k) : k \in DomainKeyrings \cup {Keyring12, Keyring21, Keyring1Bad}}
    \cup {None, "", "{}", KeyringNotCloud, KeyringNullCloud, "not json"}
Domains == {None, "random.domain", "anaconda.cloud", "anaconda.com", "anaconda.org"}

\* _keyring_to_api_key(keyring, domain) is called.
KeyringToApiKey(keyring, domain) ==
    /\ phase = "running"
    /\ sites = KeyringSites
    /\ \E r \in {_keyring_to_api_key(
                     Process(fs, DEFERRED, CACHE, urandom, written), keyring, domain)} :
          /\ CACHE' = r.p.CACHE
          /\ called' = CalledKey(KeyringKey(keyring, domain), r, CACHE)
    /\ UNCHANGED extvars
    /\ UNCHANGED <<fs, DEFERRED, LOCK, READ_CHAOS, WRITE_CHAOS, DEBUG,
                   conda_importable, anaconda_auth, node, urandom, phase, sites,
                   pc, last, written, returned, runs, exitlog, environ,
                   SEARCH_PATH, now>>

\* the environment get_api_key may find: <<API key, API key under the
\* lower-case name, keyring, domain, standalone>>
KeyEnvirons ==
    {[NoEnviron EXCEPT !["ANACONDA_AUTH_API_KEY"] = e[1],
                       !["anaconda_auth_api_key"] = e[2],
                       !["ANACONDA_AUTH_KEYRING"] = e[3],
                       !["ANACONDA_AUTH_DOMAIN"] = e[4],
                       !["ANACONDA_ANON_USAGE_STANDALONE"] = e[5]] :
        e \in {<<None, None, None, None, "1">>,
               <<Jwt1, None, None, None, "1">>,
               <<"", None, None, None, "1">>,
               <<None, Jwt3, None, None, "1">>,
               <<None, None, TextOf(Keyring1), None, "1">>,
               <<Jwt1, None, TextOf(Keyring1), None, "1">>,
               <<None, None, None, "anaconda.cloud", "1">>,
               <<None, None, None, None, None>>,
               <<Jwt1, None, None, None, "">>}}

\* the secrets directory: <<the directory, the API key under the upper-case
\* and the lower-case name, the keyring>>
SecretsFs ==
    {[EmptyFs EXCEPT !["/run"] = DirNode("rw"),
                     ![SecretsDir] = s[1],
                     ![join(SecretsDir, "ANACONDA_AUTH_API_KEY")] = s[2],
                     ![join(SecretsDir, "anaconda_auth_api_key")] = s[3],
                     ![join(SecretsDir, "anaconda_auth_keyring")] = s[4]] :
        s \in {<<Absent, Absent, Absent, Absent>>,
               <<DirNode("rw"), Absent, Absent, Absent>>,
               <<DirNode("rw"), Absent, FileNode(Jwt2 \o "\n", "rw"), Absent>>,
               <<DirNode("rw"), FileNode(Jwt2, "rw"), FileNode(Jwt3, "rw"), Absent>>,
               <<DirNode("rw"), Absent, FileNode("", "rw"), Absent>>,
               <<DirNode("rw"), Absent, FileNode(Jwt2, "no"), Absent>>,
               <<DirNode("rw"), Absent, Absent, FileNode(TextOf(Keyring12), "rw")>>,
               <<DirNode("rw"), Absent, FileNode(Jwt2, "rw"),
                 FileNode(TextOf(Keyring12), "rw")>>}}

\* the secrets directory together with the keyring file
KeyFs ==
    {[f EXCEPT ![ANACONDA_DIR] = DirNode("rw"), ![KeyringPath] = k] :
        f \in SecretsFs,
        k \in {Absent, FileNode(TextOf(KeyringAll), "rw"), FileNode(KeyringNullCloud, "rw")}}

InitK ==
    /\ procs = NoProcs
    /\ Context = NoContext
    /\ sp_dir = NoSpDir
    /\ sites \in {DecoderSites, KeyringSites, KeySites}
    /\ IF sites = KeySites
       THEN /\ environ \in KeyEnvirons
            /\ fs \in KeyFs
            /\ anaconda_auth \in {None, "", Jwt2}
       ELSE IF sites = KeyringSites
       THEN /\ environ \in {NoEnviron,
                            [NoEnviron EXCEPT !["ANACONDA_AUTH_DOMAIN"] = "random.domain"]}
            /\ fs \in {EmptyFs,
                       [EmptyFs EXCEPT !["/run"] = DirNode("rw"),
                                       ![SecretsDir] = DirNode("rw"),
                                       ![join(SecretsDir, "anaconda_auth_domain")] =
                                           FileNode("anaconda.cloud\n", "rw")]}
            /\ anaconda_auth = None
       ELSE /\ environ = NoEnviron
            /\ fs = EmptyFs
            /\ anaconda_auth = None
    /\ DEBUG = FALSE
    /\ conda_importable = FALSE
    /\ SEARCH_PATH = <<>>
    /\ READ_CHAOS = ""
    /\ WRITE_CHAOS = ""
    /\ now = 1000
    /\ node = 1
    /\ called = NoCalled
    /\ DEFERRED = <<>>
    /\ CACHE = {}
    /\ LOCK = 0
    /\ urandom = 0
    /\ phase = "running"
    /\ pc = [t \in Threads |-> Idle]
    /\ last = NoHistory
    /\ written = {}
    /\ returned = {}
    /\ runs = [k \in Keys |-> 0]
    /\ exitlog = <<>>

NextK ==
    \/ \E i \in DOMAIN Credentials : JwtToToken(Credentials[i])
    \/ \E i \in DOMAIN Credentials : ApiKeyJwtToToken(Credentials[i])
    \/ \E keyring \in KeyringTexts, domain \in Domains : KeyringToApiKey(keyring, domain)
    \/ \E key \in sites \cap KeySites : CallCached(key)
    \/ Tick

SpecK == InitK /\ [][NextK]_vars

-----------------------------------------------------------------------------
(* Several processes run _saved_token for the same path at once.  Each      *)
(* system call is a step: a read, the open that creates or truncates the    *)
(* file, and the write that the close of the file flushes.                  *)

\* the processes that start together
NRacers == 2
Racers == 1..NRacers
\* os.urandom draws of the racers and of the processes started after them
MaxRaceDraws == NRacers + 1

\* The local variables of _saved_token in one process: later tells a process
\* started after the race from a racer, made is the token a racer wrote.
NewProc(later, made) ==
    [at |-> "idle", later |-> later, client_token |-> "", xtra |-> <<>>,
     short |-> FALSE, saved_node |-> "", regenerate |-> FALSE,
     resave |-> FALSE, made |-> made, ret |-> NoCall]

\* the one site of a race, its path, kind and guard directory
RaceSite == CHOOSE site \in sites : TRUE
RacePath == SitePath(RaceSite)
RaceWhat ==
    IF RaceSite.fn = "client_token" THEN "client token" ELSE "environment token"
RaceGuard == IF RaceSite.fn = "client_token" THEN None ELSE RaceSite.prefix
node_tie == RaceSite.fn = "client_token"

\* a faulty variant of Overlay: the file is opened for appending
Overlay_Append(old, data) == old \o data

\* fp.write(data) at offset 0 of a file that holds old: what lies beyond the
\* data written stays
Overlay(old, data) ==
    data \o (IF Len(old) > Len(data) THEN SubSeq(old, Len(data) + 1, Len(old))
             ELSE "")

\* the file at a path after the data of an open file was flushed to it
Flushed(f, fpath, data) ==
    [f EXCEPT ![fpath] = FileNode(Overlay(f[fpath].data, data), f[fpath].mode)]

\* "true_node = saved_node or (xtra[0] if xtra else None)"
TrueNode(saved_node, xtra) ==
    Or(saved_node, IF xtra # <<>> THEN xtra[1] ELSE None)
\* the branches of "if regenerate or not true_node: ... elif ... elif xtra:"
HostRegenerate(short, true_node, current_node) ==
    short \/ (Truthy(true_node) /\ true_node # current_node)
HostResave(short, true_node, current_node, xtra) ==
    ~short /\ Truthy(true_node) /\ true_node = current_node /\ xtra # <<>>

StepVars ==
    <<sites, DEFERRED, CACHE, LOCK, READ_CHAOS, WRITE_CHAOS, DEBUG,
      conda_importable, node, phase, pc, last, written, returned, runs,
      exitlog, Context, sp_dir>>

\* "client_token = _read_file(fpath, what, single_line=True) or ''" and the
\* split and length check that follow
ReadToken(i) ==
    /\ procs[i].at = "idle"
    /\ \E r1 \in {_read_file(fs, <<>>, RacePath, RaceWhat, TRUE)} :
       \E parts \in {split1(Or(r1.val, ""))} :
          procs' = [procs EXCEPT ![i].client_token = parts[1],
                                 ![i].xtra = Tail(parts),
                                 ![i].short = TooShort(parts[1]),
                                 ![i].regenerate = TooShort(parts[1]),
                                 ![i].at = IF node_tie THEN "readhost" ELSE "save"]
    /\ UNCHANGED <<fs, urandom>>
    /\ UNCHANGED hostvars
    /\ UNCHANGED StepVars

\* "saved_node = _read_file(npath, 'Host id', single_line=True) or ''" and
\* the comparison with the current host id
ReadHost(i) ==
    /\ procs[i].at = "readhost"
    /\ \E r2 \in {_read_file(fs, <<>>, RacePath \o "_host", "Host id", TRUE)} :
       \E saved_node \in {Or(r2.val, "")} :
       \E true_node \in {TrueNode(saved_node, procs[i].xtra)} :
          procs' = [procs EXCEPT
              ![i].saved_node = saved_node,
              ![i].regenerate =
                  HostRegenerate(procs[i].short, true_node, _get_node_str),
              ![i].resave =
                  HostResave(procs[i].short, true_node, _get_node_str,
                             procs[i].xtra),
              ![i].at = IF saved_node # _get_node_str THEN "openhost"
                        ELSE "save"]
    /\ UNCHANGED <<fs, urandom>>
    /\ UNCHANGED hostvars
    /\ UNCHANGED StepVars

\* _write_attempt(False, npath, current_node, False): the sidecar is opened
OpenHost(i) ==
    /\ procs[i].at = "openhost"
    /\ \E w \in {_write_attempt(fs, None, RacePath \o "_host", "", FALSE)} :
          /\ fs' = w.fs
          /\ procs' = [procs EXCEPT ![i].at = IF w.status = WRITE_SUCCESS
                                              THEN "writehost" ELSE "save"]
    /\ UNCHANGED urandom
    /\ UNCHANGED hostvars
    /\ UNCHANGED StepVars

\* the host id reaches the sidecar
WriteHost(i) ==
    /\ procs[i].at = "writehost"
    /\ fs' = Flushed(fs, RacePath \o "_host", Or(_get_node_str, ""))
    /\ procs' = [procs EXCEPT ![i].at = "save"]
    /\ UNCHANGED urandom
    /\ UNCHANGED hostvars
    /\ UNCHANGED StepVars

\* "if regenerate or resave:" and "client_token = _random_token()"
Regenerate(i) ==
    /\ procs[i].at = "save"
    /\ IF ~(procs[i].regenerate \/ procs[i].resave)
       THEN /\ procs' = [procs EXCEPT ![i].at = "done",
                                      ![i].ret = procs[i].client_token]
            /\ urandom' = urandom
       ELSE IF procs[i].regenerate
       THEN /\ urandom < MaxRaceDraws
            /\ urandom' = urandom + 1
            /\ procs' = [procs EXCEPT ![i].at = "open",
                                      ![i].client_token = _random_token(urandom + 1)]
       ELSE /\ procs' = [procs EXCEPT ![i].at = "open"]
            /\ urandom' = urandom
    /\ UNCHANGED fs
    /\ UNCHANGED hostvars
    /\ UNCHANGED StepVars

\* _write_attempt(must_exist, fpath, client_token, ...): the directories are
\* made and the token file is opened, which creates or truncates it
OpenToken(i) ==
    /\ procs[i].at = "open"
    /\ \E w \in {_write_attempt(fs, RaceGuard, RacePath, "",
                                InStr(Head(RaceWhat), WRITE_CHAOS))} :
          /\ fs' = w.fs
          /\ procs' =
                IF w.status = WRITE_SUCCESS
                THEN [procs EXCEPT ![i].at = "write"]
                ELSE [procs EXCEPT ![i].at = "done",
                                   ![i].ret = IF w.status = WRITE_FAIL THEN ""
                                              ELSE procs[i].client_token]
    /\ UNCHANGED urandom
    /\ UNCHANGED hostvars
    /\ UNCHANGED StepVars

\* the token reaches the file, and _saved_token returns it
WriteToken(i) ==
    /\ procs[i].at = "write"
    /\ fs' = Flushed(fs, RacePath, procs[i].client_token)
    /\ procs' = [procs EXCEPT ![i].at = "done",
                              ![i].ret = procs[i].client_token,
                              ![i].made = IF procs[i].later THEN @
                                          ELSE procs[i].client_token]
    /\ UNCHANGED urandom
    /\ UNCHANGED hostvars
    /\ UNCHANGED StepVars

\* Once every process has finished, another one is started.
StartLater(i) ==
    /\ \A j \in Racers : procs[j].at = "done"
    /\ procs' = [procs EXCEPT ![i] = NewProc(TRUE, procs[i].made)]
    /\ UNCHANGED <<fs, urandom>>
    /\ UNCHANGED hostvars
    /\ UNCHANGED StepVars

\* the token file is missing; the sidecar of the client token may be there
RaceFs ==
    {[EmptyFs EXCEPT ![CONFIG_DIR] = DirNode(m),
                     ![ClientPath \o "_host"] = h] :
        m \in {"rw", "ro"}, h \in HostNodes}
    \cup {EmptyFs}
    \cup {[EmptyFs EXCEPT !["/env"] = DirNode(m)] : m \in {"rw", "ro"}}
    \cup {[EmptyFs EXCEPT !["/env"] = DirNode("rw"),
                          ![join("/env", "etc")] = DirNode(m)] : m \in {"rw", "ro"}}

InitR ==
    /\ sites \in {{ClientSite}, {EnvSite("/env")}}
    /\ fs \in RaceFs
    /\ sites = {ClientSite} => fs["/env"] = Absent
    /\ sites = {EnvSite("/env")} => fs["/env"] # Absent
    /\ node \in IF sites = {ClientSite} THEN {0, 1} ELSE {1}
    /\ procs = [i \in Racers |-> NewProc(FALSE, "")]
    /\ Context = NoContext
    /\ sp_dir = NoSpDir
    /\ READ_CHAOS = ""
    /\ WRITE_CHAOS = ""
    /\ DEBUG = FALSE
    /\ conda_importable = TRUE
    /\ environ = NoEnviron
    /\ SEARCH_PATH = <<>>
    /\ now = 1000
    /\ called = NoCalled
    /\ anaconda_auth = None
    /\ DEFERRED = <<>>
    /\ CACHE = {}
    /\ LOCK = 0
    /\ urandom = 0
    /\ phase = "running"
    /\ pc = [t \in Threads |-> Idle]
    /\ last = NoHistory
    /\ written = {}
    /\ returned = {}
    /\ runs = [k \in Keys |-> 0]
    /\ exitlog = <<>>

NextR ==
    \/ \E i \in Racers : ReadToken(i)
    \/ \E i \in Racers : ReadHost(i)
    \/ \E i \in Racers : OpenHost(i)
    \/ \E i \in Racers : WriteHost(i)
    \/ \E i \in Racers : Regenerate(i)
    \/ \E i \in Racers : OpenToken(i)
    \/ \E i \in Racers : WriteToken(i)
    \/ \E i \in Racers : StartLater(i)

SpecR == InitR /\ [][NextR]_vars
-----------------------------------------------------------------------------
(* patch.main: the host's context is patched, from the patch text that      *)
(* install.py appends to conda/base/context.py or from the plugin hook      *)

\* the calls of patch.main in one process
MaxMain == 3
Commands == {"install", "info", "activate"}
Unset == "<unset>"
\* conda's own user agent and the minimal token string
CondaUserAgent == "conda/24.1.2 requests/2.31.0"

\* what conda.cli.main_info offers, by conda version
MainInfos == {"get_main_info_display", "get_main_info_str", "<neither>"}

\* conda's Context and context before patch.py has touched them
FreshContext(main_info) ==
    [main_info |-> main_info, user_agent |-> "user_agent", _old_user_agent |-> Unset,
     parameter_names |-> <<"channels", "json">>,
     checked_prefix |-> Unset, _aau_initialized |-> Unset,
     __init__ |-> "__init__", _old_check_prefix |-> FALSE,
     _old_get_main_info_str |-> FALSE, _old_activate |-> FALSE,
     calls |-> 0, ret |-> "<no call>", ua |-> ""]

\* _patch_check_prefix()
_patch_check_prefix(C) ==
    IF C._old_check_prefix THEN C
    ELSE [C EXCEPT !._old_check_prefix = TRUE, !._aau_initialized = "True"]

\* _patch_conda_info()
_patch_conda_info(C) ==
    IF C._old_get_main_info_str \/ C.main_info = "<neither>" THEN C
    ELSE [C EXCEPT !._old_get_main_info_str = TRUE]

\* _patch_activate()
_patch_activate(C) == [C EXCEPT !._old_activate = TRUE]

\* "getattr(context, '_aau_initialized', None) is not None"
AlreadyActive_Truthy(C) == C._aau_initialized = "True"
AlreadyActive(C) == C._aau_initialized # Unset

\* main(plugin, command), lines 128-155: the patch of the class and the mark
Patched(C) ==
    [C EXCEPT !._old_user_agent = C.user_agent,
              !.user_agent = "_new_user_agent",
              !.parameter_names = C.parameter_names \o <<"anaconda_anon_usage", "anaconda_heartbeat">>,
              !.checked_prefix = None,
              !._aau_initialized = "False"]

\* main(plugin, command), lines 157-177
Completed(C, plugin, command) ==
    IF plugin
    THEN With(_patch_conda_info(C), LAMBDA c1 :
         With(IF command = "activate" THEN _patch_activate(c1) ELSE c1, LAMBDA c2 :
              IF command = "info" THEN _patch_check_prefix(c2) ELSE c2))
    ELSE [C EXCEPT !.__init__ = "_new_init"]

main(C, plugin, command) ==
    IF AlreadyActive(C) THEN [C EXCEPT !.ret = "False"]
    ELSE [Completed(Patched(C), plugin, command) EXCEPT !.ret = "True"]

PatchFrame ==
    UNCHANGED <<fs, DEFERRED, CACHE, LOCK, READ_CHAOS, WRITE_CHAOS, DEBUG,
                conda_importable, node, urandom, phase, sites, pc, last,
                written, returned, runs, exitlog, environ, SEARCH_PATH, now,
                called, anaconda_auth, procs, sp_dir>>

\* the patch text at the end of conda/base/context.py runs patch.main(); the
\* pre-command hook of plugin.py runs patch.main(plugin=True, command=command)
Main(plugin, command) ==
    /\ Context.calls < MaxMain
    /\ Context' = [main(Context, plugin, command) EXCEPT !.calls = @ + 1]
    /\ PatchFrame

\* the host calls context.__init__: _new_init, where main left it there
ContextInit ==
    /\ Context.__init__ = "_new_init"
    /\ Context' = [_patch_check_prefix(_patch_conda_info(Context)) EXCEPT !.__init__ = "__init__"]
    /\ PatchFrame

\* the host calls conda.cli.install.check_prefix: _new_check_prefix, where
\* _patch_check_prefix has replaced it
CheckPrefix(prefix) ==
    /\ Context._old_check_prefix
    /\ Context.checked_prefix # prefix
    /\ Context' = [Context EXCEPT !.checked_prefix = prefix]
    /\ PatchFrame

\* what the property Context.user_agent gives: conda's own value, or
\* _new_user_agent, which appends the token string to ctx._old_user_agent
RECURSIVE UserAgentOf(_, _)
UserAgentOf(C, depth) ==
    IF C.user_agent = "user_agent" THEN CondaUserAgent
    ELSE IF C._old_user_agent = "user_agent"
    THEN CondaUserAgent \o " aau/" \o __version__
    ELSE IF depth = 0 THEN "<RecursionError>"
    ELSE UserAgentOf(C, depth - 1)

\* the host reads context.user_agent
UserAgent ==
    /\ Context.ua # UserAgentOf(Context, 1)
    /\ Context' = [Context EXCEPT !.ua = UserAgentOf(Context, 1)]
    /\ PatchFrame

InitM ==
    /\ sites = {ClientSite}
    /\ fs = EmptyFs
    /\ node = 1
    /\ READ_CHAOS = ""
    /\ WRITE_CHAOS = ""
    /\ DEBUG = FALSE
    /\ conda_importable = TRUE
    /\ procs = NoProcs
    /\ sp_dir = NoSpDir
    /\ Context \in {FreshContext(main_info) : main_info \in MainInfos}
    /\ environ = NoEnviron
    /\ SEARCH_PATH = <<>>
    /\ now = 1000
    /\ called = NoCalled
    /\ anaconda_auth = None
    /\ DEFERRED = <<>>
    /\ CACHE = {}
    /\ LOCK = 0
    /\ urandom = 0
    /\ phase = "running"
    /\ pc = [t \in Threads |-> Idle]
    /\ last = NoHistory
    /\ written = {}
    /\ returned = {}
    /\ runs = [k \in Keys |-> 0]
    /\ exitlog = <<>>

NextM ==
    \/ \E plugin \in BOOLEAN, command \in Commands : Main(plugin, command)
    \/ ContextInit
    \/ \E prefix \in {SysPrefix} \cup NewPrefixes : CheckPrefix(prefix)
    \/ UserAgent

SpecM == InitM /\ [][NextM]_vars
-----------------------------------------------------------------------------
(* install.py: the installer that appends the patch text to                 *)
(* conda/base/context.py, or removes it                                     *)

\* runs of the installer on one site-packages directory
MaxInstalls == 2

\* bytes.find(sub) + 1
FindSub(text, sub) ==
    IF \E i \in 1..(Len(text) - Len(sub) + 1) : SubSeq(text, i, i + Len(sub) - 1) = sub
    THEN CHOOSE i \in 1..(Len(text) - Len(sub) + 1) :
            /\ SubSeq(text, i, i + Len(sub) - 1) = sub
            /\ \A j \in 1..(i - 1) : SubSeq(text, j, j + Len(sub) - 1) # sub
    ELSE 0

\* bytes.replace(old, new)
RECURSIVE replace(_, _, _)
replace(text, old, new) ==
    With(FindSub(text, old), LAMBDA i :
        IF i = 0 THEN text
        ELSE SubSeq(text, 1, i - 1) \o new
             \o replace(SubSeq(text, i + Len(old), Len(text)), old, new))

PATCH_NAME == "anaconda_anon_usage"
\* the patch text, its body shortened to one line
PatchText(version) == "\n# " \o PATCH_NAME \o " " \o version \o "\npatch.main()\n"
PATCH_TEXT == PatchText(__version__)

WinEol == "\r\n"

_eolmatch(text, ptext) ==
    With(FindSub(text, WinEol) > 0, LAMBDA wineol :
        IF wineol # (FindSub(ptext, WinEol) > 0)
        THEN (IF wineol THEN replace(ptext, "\n", WinEol) ELSE replace(ptext, WinEol, "\n"))
        ELSE ptext)

\* a path that does not exist
NoFile == "<no file>"

\* _read(pfile, patch_text, patch_name): the status
_read(text, patch_text, patch_name) ==
    IF text = NoFile THEN "NOT PRESENT"
    ELSE IF EndsWith(text, _eolmatch(text, patch_text)) THEN "ENABLED"
    ELSE IF FindSub(text, patch_name) > 0 THEN "NEEDS UPDATE"
    ELSE "DISABLED"

_strip(text, patch_name) ==
    With(FindSub(text, "# " \o patch_name), LAMBDA ndx :
        IF ndx > 0 THEN SubSeq(text, 1, ndx - 1) ELSE text)

\* lines 150-165 of _patch: what is to be done, "" when nothing is
Change(status, argv) ==
    IF status = "NOT PRESENT" THEN ""
    ELSE IF status = "NEEDS UPDATE"
    THEN (IF "--disable" \in argv THEN "removing" ELSE "updating")
    ELSE IF status = "NEEDS REMOVAL" THEN "removing"
    ELSE IF "--enable" \in argv THEN (IF status = "DISABLED" THEN "applying" ELSE "")
    ELSE IF "--disable" \in argv THEN (IF status = "ENABLED" THEN "removing" ELSE "")
    ELSE ""

\* what lines 172-180 write to pfile + ".new"
Replacement(text, how) ==
    With(_strip(text, PATCH_NAME), LAMBDA stripped :
        IF how = "removing" THEN stripped
        ELSE stripped \o _eolmatch(stripped, PATCH_TEXT))

\* the operations of lines 176-186 and 196 that the system may refuse
Ops == {"open", "write", "unlink", "rename_orig", "rename_new", "restore"}

Outcome(files, failed, exc) == [files |-> files, failed |-> failed, exc |-> exc]

\* the except clause, lines 189-196: "if renamed: os.rename(pfile_orig, pfile)";
\* an exception of this rename leaves _patch
Restore_None(files, renamed, failed, faults) == Outcome(files, failed, "")
Restore(files, renamed, failed, faults) ==
    IF ~renamed THEN Outcome(files, failed, "")
    ELSE IF "restore" \in faults THEN Outcome(files, failed, "OSError")
    ELSE Outcome([files EXCEPT !.pfile = files.orig, !.orig = NoFile], failed, "")

\* lines 186-188
RenameNew(files, faults) ==
    IF "rename_new" \in faults THEN Restore(files, TRUE, "rename_new", faults)
    ELSE Outcome([files EXCEPT !.pfile = files.new, !.new = NoFile], "", "")

\* lines 184-185
RenameOrig(files, faults) ==
    IF "rename_orig" \in faults THEN Restore(files, FALSE, "rename_orig", faults)
    ELSE RenameNew([files EXCEPT !.orig = files.pfile, !.pfile = NoFile], faults)

\* lines 181-183
UnlinkOrig(files, faults) ==
    IF files.orig = NoFile THEN RenameOrig(files, faults)
    ELSE IF "unlink" \in faults THEN Restore(files, FALSE, "unlink", faults)
    ELSE RenameOrig([files EXCEPT !.orig = NoFile], faults)

\* lines 176-180: a refused open leaves pfile + ".new" as it was, a failing
\* write leaves the first cut bytes of the replacement in it
WriteNew(files, data, faults, cut) ==
    IF "open" \in faults THEN Restore(files, FALSE, "open", faults)
    ELSE IF "write" \in faults
    THEN Restore([files EXCEPT !.new = SubSeq(data, 1, cut)], FALSE, "write", faults)
    ELSE UnlinkOrig([files EXCEPT !.new = data], faults)

\* _patch(args, pfile, patch_text, patch_name)
_patch(files, argv, faults, cut) ==
    With(_read(files.pfile, PATCH_TEXT, PATCH_NAME), LAMBDA status :
    With(Change(status, argv), LAMBDA how :
        IF how = "" THEN [Outcome(files, "", "") EXCEPT !.failed = ""] @@ [status |-> status, how |-> how]
        ELSE WriteNew(files, Replacement(files.pfile, how), faults, cut)
             @@ [status |-> status, how |-> how]))

\* main(args), lines 221-233: without arguments, and not quiet, it prints
\* the banner and returns
Verbose(argv) == ~("--quiet" \in argv /\ "--status" \notin argv)
Returns(argv) == Verbose(argv) /\ argv = {}

\* the options that configure_parser accepts
Argvs ==
    {a \cup q : a \in {{}, {"--enable"}, {"--disable"}, {"--status"}},
                q \in {{}, {"--quiet"}}}

InstallFrame ==
    UNCHANGED <<fs, DEFERRED, CACHE, LOCK, READ_CHAOS, WRITE_CHAOS, DEBUG,
                conda_importable, node, urandom, phase, sites, pc, last,
                written, returned, runs, exitlog, environ, SEARCH_PATH, now,
                called, anaconda_auth, procs, Context>>

\* one run of "python -m anaconda_anon_usage.install" with these options,
\* where the system refuses the operations in faults
Install(argv, faults, cut) ==
    /\ sp_dir.installs < MaxInstalls
    /\ \E r \in {IF Returns(argv)
                 THEN Outcome(sp_dir.files, "", "") @@ [status |-> "<no status>", how |-> ""]
                 ELSE _patch(sp_dir.files, argv, faults, cut)} :
          sp_dir' = [files |-> r.files, installs |-> sp_dir.installs + 1,
                     argv |-> argv, before |-> sp_dir.files.pfile,
                     status |-> r.status, how |-> r.how, failed |-> r.failed,
                     exc |-> r.exc]
    /\ InstallFrame

\* conda/base/context.py as the installer may find it
BaseText == "import os\n"
Targets ==
    {NoFile, BaseText, BaseText \o PATCH_TEXT, BaseText \o PatchText("0.7.0"),
     replace(BaseText \o PATCH_TEXT, "\n", WinEol),
     replace(BaseText \o PatchText("0.7.0"), "\n", WinEol),
     "import " \o PATCH_NAME \o "\n"}

InitI ==
    /\ sp_dir \in {[files |-> [pfile |-> t, orig |-> o, new |-> NoFile],
                    installs |-> 0, argv |-> {}, before |-> t,
                    status |-> "<no run>", how |-> "", failed |-> "", exc |-> ""] :
                   t \in Targets, o \in {NoFile, BaseText}}
    /\ sites = {ClientSite}
    /\ fs = EmptyFs
    /\ node = 1
    /\ READ_CHAOS = ""
    /\ WRITE_CHAOS = ""
    /\ DEBUG = FALSE
    /\ conda_importable = TRUE
    /\ procs = NoProcs
    /\ Context = NoContext
    /\ environ = NoEnviron
    /\ SEARCH_PATH = <<>>
    /\ now = 1000
    /\ called = NoCalled
    /\ anaconda_auth = None
    /\ DEFERRED = <<>>
    /\ CACHE = {}
    /\ LOCK = 0
    /\ urandom = 0
    /\ phase = "running"
    /\ pc = [t \in Threads |-> Idle]
    /\ last = NoHistory
    /\ written = {}
    /\ returned = {}
    /\ runs = [k \in Keys |-> 0]
    /\ exitlog = <<>>

\* a run meets at most one refused operation of lines 176-186, and then
\* perhaps the refusal of the restoring rename
FaultSets == {{}} \cup {{op} : op \in Ops} \cup {{op, "restore"} : op \in Ops}

NextI ==
    \E argv \in Argvs, faults \in FaultSets, cut \in {0, 5} : Install(argv, faults, cut)

SpecI == InitI /\ [][NextI]_vars
-----------------------------------------------------------------------------
(* Terms of the properties *)

\* the state is the one a call of a token function's body has just left
Called == last.site.fn \in {"client_token", "environment_token"}
\* the fault injection letter of a token path's kind, and of the last call's
LetterOf(p) == IF p = ClientPath THEN "c" ELSE "e"
Letter == LetterOf(SitePath(last.site))
\* the token a file's content holds: the first word of its first non-blank line
TokenOn(data) == split1(SingleLine(strip(data)))[1]
\* the token file and the sidecar of the last call, as they are now
FileNow == NodeAt(fs, SitePath(last.site))
HostNow == NodeAt(fs, SitePath(last.site) \o "_host")
Readable(n) == n.t = "file" /\ n.mode \in {"rw", "ro"}
Writable(n) == n.t = "file" /\ n.mode \in {"rw", "wo"}
\* the host id a sidecar node records
HostOn(n) == IF Readable(n) THEN SingleLine(strip(n.data)) ELSE ""
\* the last call found a readable token file holding a long enough token
FoundValid == Readable(last.file) /\ Len(TokenOn(last.file.data)) >= TOKEN_LENGTH
\* what one more call of the last call's site would return now
ReadAgain == Body(last.site, fs, DEFERRED, urandom + 1).ret

-----------------------------------------------------------------------------
(* Properties *)

\* C1: _saved_token is idempotent: two consecutive calls with the same
\* arguments and no change to the file by anyone else in between return the
\* identical string.
C1_Idempotent ==
    (Called /\ last.prev # NoCall) => last.ret = last.prev

\* C2 (as stated): a token file that exists and holds a token of at least 22
\* characters makes _saved_token without host-id tie return that token and
\* leave the file as it is, in every process.
C2_Reused ==
    (/\ Called
     /\ last.site.fn = "environment_token"
     /\ last.file.t = "file"
     /\ Len(TokenOn(last.file.data)) >= TOKEN_LENGTH)
    => (last.ret = TokenOn(last.file.data) /\ FileNow = last.file)

\* C2 (amended): a token file that exists, can be read while no read fault is
\* injected for its kind, and holds a token of at least 22 characters makes
\* _saved_token without host-id tie return that token and leave the file as it
\* is, in every process.
C2_ReusedWhenRead ==
    (/\ Called
     /\ last.site.fn = "environment_token"
     /\ FoundValid
     /\ ~InStr(Letter, READ_CHAOS))
    => (last.ret = TokenOn(last.file.data) /\ FileNow = last.file)

\* C2: a token of exactly 22 characters was returned by two calls in a row,
\* nothing was generated and the file is the one found.
C2_Witness ==
    /\ Called
    /\ last.site.fn = "environment_token"
    /\ FoundValid
    /\ Len(last.file.data) = TOKEN_LENGTH
    /\ last.ret = last.file.data
    /\ last.prev = last.ret
    /\ FileNow = last.file
    /\ urandom = 0

\* C3 (as stated): a token file holding a token of fewer than 22 characters
\* makes the next call replace the content by a fresh 22-character token and
\* return that token.
C3_ShortReplaced ==
    (/\ Called
     /\ last.file.t = "file"
     /\ Len(TokenOn(last.file.data)) < TOKEN_LENGTH)
    => (/\ Len(last.ret) = TOKEN_LENGTH
        /\ last.ret # TokenOn(last.file.data)
        /\ FileNow.t = "file"
        /\ FileNow.data = last.ret)

\* C3 (amended): a token file holding a token of fewer than 22 characters
\* makes the next call generate a fresh 22-character token; when the file can
\* be written and no write fault is injected for the kind, the content is
\* replaced by it and it is returned; otherwise the empty string is returned
\* and the file is left as it was.  What is returned is never the short token.
C3_ShortReplacedWhenWritten ==
    (/\ Called
     /\ last.file.t = "file"
     /\ Len(TokenOn(last.file.data)) < TOKEN_LENGTH)
    => IF Writable(last.file) /\ ~InStr(Letter, WRITE_CHAOS)
       THEN /\ Len(last.ret) = TOKEN_LENGTH
            /\ last.ret # TokenOn(last.file.data)
            /\ FileNow.t = "file"
            /\ FileNow.data = last.ret
       ELSE /\ last.ret = ""
            /\ FileNow = last.file

\* C3: a short token was found and the file now holds the fresh token that
\* was returned.
C3_Witness ==
    /\ Called
    /\ last.file.t = "file"
    /\ last.file.data = Short
    /\ Len(last.ret) = TOKEN_LENGTH
    /\ FileNow.data = last.ret
    /\ last.ret = _random_token(urandom)

\* C4: when the token write fails, _saved_token returns the empty string,
\* raises nothing, adds nothing to DEFERRED and leaves the token path as it
\* was.
C4_FailOpen ==
    (Called /\ WRITE_FAIL \in last.status)
    => (/\ last.ret = ""
        /\ DEFERRED = last.deferred
        /\ FileNow = last.file)

\* the entries of DEFERRED for a path
DeferredFor(p) == {i \in 1..Len(DEFERRED) : DEFERRED[i][2] = p}
\* the values returned in this process by calls for a path
ReturnedFor(p) == {x[2] : x \in {y \in returned : SitePath(y[1]) = p}}

\* C5: when the guard directory is absent, every call for the same path and
\* kind in the process returns the same non-empty token, and the token file
\* does not exist before the exit hook runs, even if the guard directory
\* appears in the meantime.
C5_DeferredIdempotent ==
    phase = "running" =>
        /\ \A i \in 1..Len(DEFERRED) :
              /\ ~exists(fs, DEFERRED[i][2])
              /\ DEFERRED[i][3] # ""
              /\ DeferredFor(DEFERRED[i][2]) = {i}
              /\ ReturnedFor(DEFERRED[i][2]) = {DEFERRED[i][3]}
        /\ (Called /\ ~last.guard) =>
              /\ DeferredFor(SitePath(last.site)) # {}
              /\ ReturnedFor(SitePath(last.site)) = {last.ret}

\* C5: a call that found the guard directory and one that did not returned
\* the same deferred token, and the file does not exist.
C5_Witness ==
    /\ phase = "running"
    /\ Called
    /\ last.guard
    /\ last.prev = last.ret
    /\ DeferredFor(SitePath(last.site)) # {}
    /\ Len(last.ret) = TOKEN_LENGTH
    /\ ~exists(fs, SitePath(last.site))
    /\ InStr("e", READ_CHAOS)

\* C6: at normal exit the exit hook makes one write attempt per entry of
\* DEFERRED; an entry whose guard directory exists and is writable has its
\* token file hold the value the process returned; for an entry whose guard
\* directory is still absent nothing is written.
C6_ExitHook ==
    last.site = ExitHook =>
        /\ Len(exitlog) = Len(DEFERRED)
        /\ \A i \in 1..Len(DEFERRED) :
              /\ (isdir(fs, DEFERRED[i][1]) /\ ModeOf(fs, DEFERRED[i][1]) = "rw")
                 => /\ exitlog[i] = WRITE_SUCCESS
                    /\ isfile(fs, DEFERRED[i][2])
                    /\ fs[DEFERRED[i][2]].data = DEFERRED[i][3]
                    /\ ReturnedFor(DEFERRED[i][2]) = {DEFERRED[i][3]}
              /\ ~isdir(fs, DEFERRED[i][1])
                 => /\ exitlog[i] = WRITE_DEFER
                    /\ ~exists(fs, DEFERRED[i][2])
                    /\ ~exists(fs, dirname(DEFERRED[i][2]))
                    /\ \A w \in written : w[1] # DEFERRED[i][2]

\* C6: the exit hook has handled two entries, one whose guard directory had
\* appeared and one whose guard directory had not.
C6_Witness ==
    /\ last.site = ExitHook
    /\ Len(DEFERRED) = 2
    /\ exitlog = <<WRITE_SUCCESS, WRITE_DEFER>>
    /\ isfile(fs, DEFERRED[1][2])
    /\ fs[DEFERRED[1][2]].data = DEFERRED[1][3]
    /\ ~exists(fs, DEFERRED[2][2])

\* the last call was a client_token call, on a machine whose node id is known,
\* that found a readable valid token
TiedValid == Called /\ last.site.fn = "client_token" /\ node # 0 /\ FoundValid
\* the last call found a sidecar recording another host than this machine
ForeignHost == last.host.t = "file" /\ HostOn(last.host) \notin {"", _get_node_str}

\* C7 (as stated): with host-id tie, a valid token file with a sidecar naming
\* another host makes the call return a token different from the one on disk;
\* afterwards the token file holds the returned token, the sidecar holds this
\* machine's id, and a later read returns the same new token.
C7_HostChanged ==
    (TiedValid /\ ForeignHost)
    => (/\ last.ret # TokenOn(last.file.data)
        /\ FileNow.data = last.ret
        /\ HostNow.data = _get_node_str
        /\ ReadAgain = last.ret)

\* C7 (amended): the same, when the token file and the sidecar can be written
\* and no read or write fault is injected for client tokens.
C7_HostChangedWhenWritten ==
    (/\ TiedValid
     /\ ForeignHost
     /\ Writable(last.file)
     /\ Writable(last.host)
     /\ ~InStr("c", READ_CHAOS)
     /\ ~InStr("c", WRITE_CHAOS))
    => (/\ last.ret # TokenOn(last.file.data)
        /\ Len(last.ret) = TOKEN_LENGTH
        /\ FileNow.data = last.ret
        /\ HostNow.data = _get_node_str
        /\ ReadAgain = last.ret)

\* C7: the token found beside another host's id was replaced by a fresh one,
\* which the call returned, and the sidecar records this machine.
C7_Witness ==
    /\ TiedValid
    /\ last.host.data = ElsewhereStr
    /\ last.file.data = Tok22
    /\ last.ret = _random_token(urandom)
    /\ FileNow.data = last.ret
    /\ HostNow.data = HereStr
    /\ ReadAgain = last.ret

\* C8: with host-id tie and no sidecar, a valid token stored bare, or inline
\* with this machine's host id, is preserved: the call returns it, the token
\* file afterwards holds the bare token only, and a sidecar holding this
\* machine's host id is written.
C8_Migrated ==
    (/\ TiedValid
     /\ last.host.t = "none"
     /\ last.file.data \in {TokenOn(last.file.data),
                            TokenOn(last.file.data) \o " " \o _get_node_str})
    => (/\ last.ret = TokenOn(last.file.data)
        /\ FileNow.data = last.ret
        /\ HostNow.t = "file"
        /\ HostNow.data = _get_node_str)

\* C9: the wrapped body executes at most once per cache key, and every caller
\* of a key receives the same value.
C9_OncePerKey ==
    /\ \A k \in Keys : runs[k] <= 1
    /\ \A x \in returned, y \in returned : x[1] = y[1] => x[2] = y[2]

-----------------------------------------------------------------------------
(* Terms of the properties of the token string and the system tokens *)

\* the fields of a token string, the kind letter of a field and its value
FieldsOf(s) == SplitOn(s, " ")
KindOf(field) == SubSeq(field, 1, Find(field, "/") - 1)
ValueOfField(field) == SubSeq(field, Find(field, "/") + 1, Len(field))
\* the values of the fields of one kind, in order
RECURSIVE ValuesOf(_, _)
ValuesOf(fields, kind) ==
    IF fields = <<>> THEN <<>>
    ELSE IF KindOf(Head(fields)) = kind
    THEN <<ValueOfField(Head(fields))>> \o ValuesOf(Tail(fields), kind)
    ELSE ValuesOf(Tail(fields), kind)

\* the place of a kind in the fixed order of the fields
Rank(kind) ==
    CASE kind = "aau" -> 0
      [] kind = "c" -> 1
      [] kind = "s" -> 2
      [] kind = "e" -> 3
      [] kind = "a" -> 4
      [] kind = "o" -> 5
      [] kind = "m" -> 6
      [] kind = "i" -> 7
      [] OTHER -> 99

\* the last call was a call of token_string that returned
Assembled(enabled) ==
    /\ called.key.fn = "token_string"
    /\ called.key.enabled = enabled
    /\ called.exc = ""
\* the last call was a call of a system token function that returned, and
\* it searched the path and read the files itself
Located ==
    /\ called.key.fn \in {"organization_tokens", "machine_tokens"}
    /\ called.exc = ""
    /\ {called.key, Key("_search_path")} \subseteq called.new

\* letters, digits, underscore and hyphen, 1 to 36 of them
WellFormed(t) ==
    /\ Len(t) \in 1..36
    /\ \A i \in 1..Len(t) : SubSeq(t, i, i) \in TokenChars

\* What a search for the system tokens of a file name finds now: the
\* environment variable, then the first non-blank line of the file in each
\* directory of the search path, None where there is nothing to read.
FoundIn(dir, fname) ==
    IF isfile(fs, join(dir, fname)) /\ fs[join(dir, fname)].mode \in {"rw", "ro"}
    THEN SingleLine(strip(fs[join(dir, fname)].data))
    ELSE None
Found(fname) ==
    With(CacheGet(CACHE, Key("_search_path")), LAMBDA dirs :
        <<environ["ANACONDA_ANON_USAGE_" \o upper(fname)]>>
        \o [i \in 1..Len(dirs) |-> FoundIn(dirs[i], fname)])
FileNameOf(key) ==
    IF key.fn = "organization_tokens" THEN ORG_TOKEN_NAME ELSE MACHINE_TOKEN_NAME
\* the first place of a value in a list
FirstPlace(list, v) == CHOOSE i \in 1..Len(list) : list[i] = v /\ \A j \in 1..(i - 1) : list[j] # v
Range(list) == {list[i] : i \in 1..Len(list)}

-----------------------------------------------------------------------------
(* C11: once client_token, environment_token(prefix) or token_string(prefix, *)
(* enabled) has returned a value in a process, every later call with equal  *)
(* arguments returns the same value, whatever happens to the token files in *)
(* between (the cache is never cleared here).                               *)

\* C11: all the values returned for one key in a process are equal
C11_Memoized ==
    \A e1 \in returned : \A e2 \in returned : e1[1] = e2[1] => e1[2] = e2[2]

\* C11 witness: client_token has just returned its token although the token
\* file now holds the token another process wrote
C11_Witness ==
    /\ called.key = ClientSite
    /\ called.exc = ""
    /\ called.new = {}
    /\ called.val = Tok22
    /\ fs[ClientPath].data = Rep("t", TOKEN_LENGTH)

-----------------------------------------------------------------------------
(* C12: token_string(prefix, enabled=False) returns exactly "aau/" followed *)
(* by the package version, for every prefix and state of the token files.   *)

\* C12: a disabled token_string returns "aau/<version>" and nothing else
C12_Disabled ==
    (called.key.fn = "token_string" /\ ~called.key.enabled)
        => (called.exc = "" /\ called.val = "aau/" \o __version__)

\* C12 witness: token_string(enabled=False) has returned in a process whose
\* cache holds the tokens of an earlier enabled call
C12_Witness ==
    /\ Assembled(FALSE)
    /\ InCache(CACHE, TokenStringKey(None, TRUE))
    /\ isfile(fs, ClientPath)

-----------------------------------------------------------------------------
(* C13: token_string(enabled=True) is a single-space-separated list of      *)
(* fields that starts with aau/<version>, followed by the present fields in *)
(* the order c/, s/, e/, a/, all o/, all m/; each of aau, c, s, e and a at   *)
(* most once.                                                               *)

\* C13: the fields are in the fixed order, the single-valued ones once
C13_FieldOrder ==
    Assembled(TRUE) =>
        \E fields \in {FieldsOf(called.val)} :
            /\ fields[1] = "aau/" \o __version__
            /\ \A i \in 2..Len(fields) : Rank(KindOf(fields[i])) \in 1..6
            /\ \A i \in 1..Len(fields) : \A j \in (i + 1)..Len(fields) :
                  \/ Rank(KindOf(fields[i])) < Rank(KindOf(fields[j]))
                  \/ /\ KindOf(fields[i]) = KindOf(fields[j])
                     /\ KindOf(fields[i]) \in {"o", "m"}

\* C13 witness: a token string with client, session and environment fields,
\* two organization fields and a machine field
C13_Witness ==
    /\ Assembled(TRUE)
    /\ \E fields \in {FieldsOf(called.val)} :
          /\ Len(fields) = 7
          /\ Len(ValuesOf(fields, "o")) = 2
          /\ Len(ValuesOf(fields, "m")) = 1

-----------------------------------------------------------------------------
(* C14: no field of the assembled string has an empty value: a kind whose   *)
(* token is empty or unobtainable is omitted, and the remaining fields,     *)
(* such as the session field, are still present.                            *)

\* C14: every field has a value; the client and environment fields are there
\* exactly when their tokens are not empty, the session field always
C14_NoEmptyField ==
    Assembled(TRUE) =>
        \E fields \in {FieldsOf(called.val)} :
        \E values \in {CacheGet(CACHE, AllTokensKey(called.key.prefix))} :
            /\ \A i \in 1..Len(fields) : ValueOfField(fields[i]) # ""
            /\ ValuesOf(fields, "s") = <<values.session>>
            /\ ValuesOf(fields, "c") =
                  IF values.client = "" THEN <<>> ELSE <<values.client>>
            /\ ValuesOf(fields, "e") =
                  IF values.environment = "" THEN <<>> ELSE <<values.environment>>

\* C14 witness: under read and write fault injection the token string is
\* the version field and the session field
C14_Witness ==
    /\ Assembled(TRUE)
    /\ READ_CHAOS = "ce"
    /\ WRITE_CHAOS = "ce"
    /\ \E fields \in {FieldsOf(called.val)} :
          /\ Len(fields) = 2
          /\ KindOf(fields[2]) = "s"

-----------------------------------------------------------------------------
(* C15: token_string never raises: for every state of the token files, the  *)
(* search path, the environment variables and the keyring file, a failure   *)
(* to obtain one sub-token only omits that field.                           *)

\* C15: a call of token_string returns
C15_NeverRaises == called.key.fn = "token_string" => called.exc = ""

-----------------------------------------------------------------------------
(* C16: _system_tokens returns a list without duplicates in first-seen      *)
(* order: the value of the environment variable first if set, then the      *)
(* values found in the search-path directories in search-path order.        *)

\* C16: the list has no value twice, holds only values that were found, in
\* the order of their first places, and starts with the environment
\* variable's value when that is set to a well-formed token
C16_FirstSeen ==
    Located =>
        \E found \in {Found(FileNameOf(called.key))} :
        \E tokens \in {called.val} :
            /\ \A i \in 1..Len(tokens) : \A j \in 1..Len(tokens) :
                  i # j => tokens[i] # tokens[j]
            /\ Range(tokens) \subseteq Range(found)
            /\ \A v \in Range(found) : WellFormed(v) => v \in Range(tokens)
            /\ \A i \in 1..Len(tokens) : \A j \in (i + 1)..Len(tokens) :
                  FirstPlace(found, tokens[i]) < FirstPlace(found, tokens[j])
            /\ WellFormed(found[1]) => tokens[1] = found[1]

\* C16 witness: the organization token of the environment variable comes
\* first, and a token held by two directories follows once
C16_Witness ==
    /\ Located
    /\ called.key.fn = "organization_tokens"
    /\ called.val = <<OrgB, OrgA>>
    /\ \E found \in {Found(ORG_TOKEN_NAME)} :
          \E i \in 1..Len(found) : \E j \in 1..Len(found) :
              i # j /\ found[i] = OrgA /\ found[j] = OrgA

-----------------------------------------------------------------------------
(* C17: every system token returned or rendered consists only of letters,   *)
(* digits, underscore and hyphen and has 1 to 36 characters; a value        *)
(* failing this is discarded, without removing a well-formed value.         *)

\* C17: every system token returned is well formed
C17_WellFormed ==
    (called.key.fn \in {"organization_tokens", "machine_tokens"} /\ called.exc = "")
        => \A i \in 1..Len(called.val) : WellFormed(called.val[i])

-----------------------------------------------------------------------------
(* C18: the number of o/ fields in the assembled string equals the number   *)
(* of distinct valid organization tokens found; a directory listed under    *)
(* several forms contributes its token once.                                *)

\* C18: as many o/ fields as distinct well-formed organization tokens found
C18_OrgFields ==
    (Assembled(TRUE)
     /\ {Key("organization_tokens"), Key("_search_path")} \subseteq called.new)
        => Len(ValuesOf(FieldsOf(called.val), "o"))
           = Cardinality({v \in Range(Found(ORG_TOKEN_NAME)) : WellFormed(v)})

-----------------------------------------------------------------------------
(* C19: each valid installer token, from the environment variable           *)
(* ANACONDA_ANON_USAGE_INSTALLER_TOKEN or an installer_token file, appears  *)
(* in token_string as its own i/ field after the machine fields.            *)

\* C19: the installer token of the environment variable is the last field
C19_InstallerField ==
    (Assembled(TRUE) /\ WellFormed(environ["ANACONDA_ANON_USAGE_INSTALLER_TOKEN"]))
        => \E fields \in {FieldsOf(called.val)} :
              fields[Len(fields)]
              = "i/" \o environ["ANACONDA_ANON_USAGE_INSTALLER_TOKEN"]

-----------------------------------------------------------------------------
(* C20: a structurally valid credential whose exp is earlier than the       *)
(* current time decodes to "absent", so no a/ field is derived from it.     *)

\* C20: no cloud-login token is derived from a credential that has expired
C20_Expired ==
    (/\ called.key.fn = "anaconda_auth_token"
     /\ called.key \in called.new
     /\ called.exc = ""
     /\ environ["ANACONDA_AUTH_API_KEY"] = Jwt1
     /\ ~isfile(fs, KeyringPath)
     /\ now > 2000)
        => called.val = None

-----------------------------------------------------------------------------
(* Properties of the credential decoders and of get_api_key *)

\* the JSON object a base64url segment encodes, JNull when it is no base64url
\* of a JSON object
ObjectOf(segment) ==
    IF \E e \in Base64 : e[1] = segment /\ \E j \in Json : j[1] = e[2] /\ j[2].ty = "dict"
    THEN (CHOOSE j \in Json : j[1] = (CHOOSE e \in Base64 : e[1] = segment)[2])[2]
    ELSE JNull

\* the strings uuid.UUID accepts, among those of the model
IsUUID(sub) == sub \in {Subject1, Subject2}

\* the header and the payload of a structurally valid credential
ValidObjects(header, payload) ==
    /\ header.ty = "dict"
    /\ payload.ty = "dict"
    /\ JGet(header, "typ").ty = "str"
    /\ JGet(header, "typ").v = "JWT"
    /\ JGet(payload, "exp").ty = "int"
    /\ JGet(payload, "exp").v > 0
    /\ JGet(payload, "sub").ty = "str"
    /\ JGet(payload, "sub").v # ""
    /\ IsUUID(JGet(payload, "sub").v)

\* exactly three non-empty base64url segments, the first two JSON objects,
\* typ = "JWT", exp a positive integer, sub a non-empty UUID string
StructurallyValid(s) ==
    /\ s.ty = "str"
    /\ Len(SplitOn(s.v, ".")) = 3
    /\ \A i \in 1..3 : /\ SplitOn(s.v, ".")[i] # ""
                       /\ \E e \in Base64 : e[1] = SplitOn(s.v, ".")[i]
    /\ ValidObjects(ObjectOf(SplitOn(s.v, ".")[1]), ObjectOf(SplitOn(s.v, ".")[2]))

\* C21: a credential decoder (tokens._jwt_to_token, api_key._jwt_to_token)
\* never raises, and it returns a token only if its input has exactly three
\* non-empty base64url segments of which the first two are JSON objects, the
\* header's typ is "JWT", the payload's exp is a positive integer and its sub
\* is a non-empty UUID string.
C21_OnlyValid ==
    called.key.fn = "_jwt_to_token" =>
        /\ called.exc = ""
        /\ called.val.token # None => StructurallyValid(called.key.s)

\* the payload's sub of the credential a decoder was called with
SubjectOf(s) == JGet(ObjectOf(SplitOn(s.v, ".")[2]), "sub").v

\* the 16 bytes of a UUID as 32 hexadecimal digits, and their bits, most
\* significant first, followed by zero bits
HexDigits == "0123456789abcdef"
HexValue(c) == (CHOOSE i \in 1..16 : SubSeq(HexDigits, i, i) = c) - 1
HexOf(sub) == Join(SplitOn(sub, "-"), "")
BitOf(hex, k) ==
    IF k >= 4 * Len(hex) THEN 0
    ELSE (HexValue(SubSeq(hex, k \div 4 + 1, k \div 4 + 1)) \div (2 ^ (3 - (k % 4)))) % 2

\* base64url without padding: one character of the alphabet for every six bits
Base64Alphabet == Uppercase \o Lowercase \o Digits \o "-_"
SixBits(hex, g) ==
    32 * BitOf(hex, 6 * g) + 16 * BitOf(hex, 6 * g + 1) + 8 * BitOf(hex, 6 * g + 2)
    + 4 * BitOf(hex, 6 * g + 3) + 2 * BitOf(hex, 6 * g + 4) + BitOf(hex, 6 * g + 5)
RECURSIVE Base64urlFrom(_, _)
Base64urlFrom(hex, g) ==
    IF 6 * g >= 4 * Len(hex) THEN ""
    ELSE SubSeq(Base64Alphabet, SixBits(hex, g) + 1, SixBits(hex, g) + 1)
         \o Base64urlFrom(hex, g + 1)
Base64urlOfUUID(sub) == Base64urlFrom(HexOf(sub), 0)

\* the inputs for which a decoder returns a token at the current time
Accepted(module) ==
    {i \in DOMAIN Credentials :
        IF module = "tokens" THEN _jwt_to_token(Credentials[i]).token # None
        ELSE api_key_jwt_to_token(Credentials[i]).token # None}
TokenFor(module, i) ==
    IF module = "tokens" THEN _jwt_to_token(Credentials[i]).token
    ELSE api_key_jwt_to_token(Credentials[i]).token

\* C22: the token a decoder returns is the base64url code, without padding,
\* of the 16 bytes of the payload's sub read as a UUID: 22 characters, equal
\* for equal subjects and different for different ones, whatever exp and the
\* signature segment are.
C22_SubjectEncoded ==
    (called.key.fn = "_jwt_to_token" /\ called.val.token # None) =>
        /\ Len(called.val.token) = TOKEN_LENGTH
        /\ called.val.token = Base64urlOfUUID(SubjectOf(called.key.s))
        /\ \A i \in Accepted(called.key.module) :
              (TokenFor(called.key.module, i) = called.val.token)
              <=> (SubjectOf(Credentials[i]) = SubjectOf(called.key.s))

\* a token was decoded from a credential, and another credential with the
\* same subject, a different exp and a different signature is accepted too
C22_Witness ==
    /\ called.key.fn = "_jwt_to_token"
    /\ called.val.token # None
    /\ called.key.s.v = Jwt3
    /\ \E i \in Accepted(called.key.module) : Credentials[i].v = Jwt1
    /\ \E i \in Accepted(called.key.module) : Credentials[i].v = Jwt2

\* what a source holds: the text of an environment variable under its
\* upper-case name, or else its lower-case name, and the text of a file in
\* the secrets directory; "" when the source is not there or cannot be read
EnvText(name) ==
    IF Getenv(name) # None THEN Getenv(name)
    ELSE IF Getenv(lower(name)) # None THEN Getenv(lower(name))
    ELSE ""
FileText(path) ==
    IF isdir(fs, dirname(path)) /\ isfile(fs, path) /\ fs[path].mode \in {"rw", "ro"}
    THEN rstrip(fs[path].data)
    ELSE ""
SecretText(name) ==
    IF FileText(join(SecretsDir, name)) # "" THEN FileText(join(SecretsDir, name))
    ELSE FileText(join(SecretsDir, lower(name)))

\* the sources of get_api_key in the order of their priority; the first two
\* hold a credential, the others a keyring
SourceTexts ==
    <<EnvText("ANACONDA_AUTH_API_KEY"), SecretText("ANACONDA_AUTH_API_KEY"),
      EnvText("ANACONDA_AUTH_KEYRING"), SecretText("ANACONDA_AUTH_KEYRING"),
      FileText(KeyringPath)>>
Supplying == {i \in DOMAIN SourceTexts : SourceTexts[i] # ""}
FirstSource == CHOOSE i \in Supplying : \A j \in Supplying : i <= j

\* the credential of the first source that supplies one: its text, or the
\* entry selected from its keyring
FirstCredential ==
    IF FirstSource <= 2 THEN JStr(SourceTexts[FirstSource])
    ELSE With(_keyring_to_api_key(Process(fs, DEFERRED, CACHE, urandom, written),
                                  SourceTexts[FirstSource], None),
              LAMBDA r : IF r.exc # "" THEN JNull ELSE r.val)

\* get_api_key ran its body, and anaconda_auth was not consulted or not there
StandaloneKeyCall ==
    /\ called.key.fn = "get_api_key"
    /\ Key("get_api_key") \in called.new
    /\ Truthy(Getenv("ANACONDA_ANON_USAGE_STANDALONE")) \/ anaconda_auth = None

\* C23: get_api_key takes the credential from the first of its sources
\* that supplies one (the API-key environment variable, the API-key secrets
\* file, the keyring of the environment variable, of the secrets file, of
\* the keyring file) and decodes it; what the sources after it hold does not
\* change the result.
C23_FirstSource ==
    StandaloneKeyCall =>
        /\ called.exc = ""
        /\ called.val = IF Supplying = {} THEN KeyNone
                        ELSE api_key_jwt_to_token(FirstCredential)

\* the keyrings with well-formed entries, and the credential of an entry
EntryKeyrings == DomainKeyrings \cup {Keyring12, Keyring21}
CredentialOf(rec) ==
    CASE rec = Pad(Rec1Code) -> Jwt1
      [] rec = Pad(Rec2Code) -> Jwt2
      [] rec = Pad(Rec3Code) -> Jwt3
HasDomain(k, d) == \E i \in DOMAIN k : k[i][1] = d
EntryFor(k, d) ==
    IF HasDomain(k, d) THEN CredentialOf(k[CHOOSE i \in DOMAIN k : k[i][1] = d][2])
    ELSE ""

\* the domain configured in the environment or in the secrets directory
ConfiguredDomain ==
    IF EnvText("ANACONDA_AUTH_DOMAIN") # "" THEN EnvText("ANACONDA_AUTH_DOMAIN")
    ELSE SecretText("ANACONDA_AUTH_DOMAIN")

\* the domain whose entry is to be selected
ChosenDomain(k, domain) ==
    IF Truthy(domain) THEN domain
    ELSE IF ConfiguredDomain # "" THEN ConfiguredDomain
    ELSE IF HasDomain(k, "anaconda.com") THEN "anaconda.com"
    ELSE "anaconda.cloud"

\* C24: from a keyring with entries of several domains _keyring_to_api_key
\* returns the credential of the domain it is given or that is configured,
\* otherwise that of anaconda.com if the keyring has one, otherwise that of
\* anaconda.cloud; the entry of another domain is never returned by
\* default, whenever its credential expires.
C24_DomainPriority ==
    \A k \in EntryKeyrings :
        (called.key.fn = "_keyring_to_api_key" /\ called.key.keyring = TextOf(k)) =>
            /\ called.exc = ""
            /\ called.val.ty = "str"
            /\ called.val.v = EntryFor(k, ChosenDomain(k, called.key.domain))

\* no domain is given or configured, the keyring has entries of three
\* domains of which the other domain's expires last, and anaconda.com's
\* credential is returned
C24_Witness ==
    /\ called.key.fn = "_keyring_to_api_key"
    /\ called.key.keyring = TextOf(KeyringAll)
    /\ called.key.domain = None
    /\ ConfiguredDomain = ""
    /\ called.val.v = Jwt1

-----------------------------------------------------------------------------
(* Properties of the session token, of fresh tokens and of the patched      *)
(* user agent                                                               *)

\* C25: within one process every call of session_token returns the same
\* value of 22 characters, and the call leaves every file, the record of
\* the files written and the deferred writes as they were.
C25_SessionToken ==
    [][called'.key = Key("session_token") =>
          /\ Len(called'.val) = TOKEN_LENGTH
          /\ \A e \in returned : e[1] = Key("session_token") => e[2] = called'.val
          /\ fs' = fs
          /\ written' = written
          /\ DEFERRED' = DEFERRED]_vars

\* session_token is called again, after another token was drawn and saved
C25_Witness ==
    /\ called.key = Key("session_token")
    /\ called.new = {}
    /\ <<Key("session_token"), called.val>> \in returned
    /\ urandom >= 2
    /\ written # {}

\* C26: every token _random_token has generated has exactly TOKEN_LENGTH = 22
\* characters, all of the base64url alphabet and none of them the padding
\* character, and the bytes drawn cover them: 22 * 6 >= 128 bits are asked
\* for, and 8 bits for each of the bytes drawn are at least 22 * 6.
C26_FreshToken ==
    /\ TOKEN_LENGTH = 22
    /\ TOKEN_LENGTH * 6 >= MIN_ENTROPY
    /\ MIN_ENTROPY = 128
    /\ RandomBytes * 8 >= TOKEN_LENGTH * 6
    /\ \A n \in 1..urandom :
          /\ Len(_random_token(n)) = TOKEN_LENGTH
          /\ Chars(_random_token(n)) \subseteq Chars(Base64Alphabet)
          /\ "=" \notin Chars(_random_token(n))

\* a call has generated a token and returned it
C26_Witness ==
    /\ urandom >= 1
    /\ last.ret = _random_token(urandom)
    /\ last.status = {WRITE_SUCCESS}

-----------------------------------------------------------------------------
(* Properties of token files over several calls and processes *)

\* the content of a token file is one line followed by further lines
Trailed(data) == FirstLine(strip(data)) # strip(data)
\* the sidecar the last call found names no other machine than this one
HostAgrees == HostOn(last.host) \in {"", Or(_get_node_str, "")}

-----------------------------------------------------------------------------
(* Properties of the patched user agent *)

\* the token string that the last call of _new_user_agent obtained: the one
\* token_string has kept, "" when it raised and kept none
Obtained ==
    IF InCache(CACHE, TokenStringKey(called.key.prefix, called.key.enabled))
    THEN CacheGet(CACHE, TokenStringKey(called.key.prefix, called.key.enabled))
    ELSE ""

\* C28: the patched user agent is the host's own user agent, followed by a
\* space and the token string when one is obtained; when token_string
\* raises or gives nothing it is the host's user agent unchanged, and no
\* exception leaves _new_user_agent.
C28_UserAgent ==
    called.key.fn = "_new_user_agent" =>
        /\ called.exc = ""
        /\ called.val = IF Obtained # "" THEN called.key.ua \o " " \o Obtained
                        ELSE called.key.ua

\* token_string raised inside _new_user_agent, and the host's user agent
\* was returned as it was
C28_Witness ==
    /\ called.key.fn = "_new_user_agent"
    /\ called.key.enabled
    /\ called.key.ua # ""
    /\ ~InCache(CACHE, TokenStringKey(called.key.prefix, called.key.enabled))
    /\ called.val = called.key.ua
    /\ called.exc = ""

-----------------------------------------------------------------------------
(* Properties of the client token across processes *)

\* the tokens a run may find in the client token file
DiskTokens == {Tok22, Tok23}
\* a client-token call found the token t on disk beside a sidecar that
\* records the host id of another machine
FoundForeign(t) ==
    /\ Called
    /\ last.site = ClientSite
    /\ FoundValid
    /\ ~InStr(Letter, READ_CHAOS)
    /\ TokenOn(last.file.data) = t
    /\ node # 0
    /\ HostOn(last.host) \notin {"", NodeStr(node)}
\* a client-token call returned t
ReturnedClient(t) == Called /\ last.site = ClientSite /\ last.ret = t

\* C29: a token that a client-token call found on disk beside a recorded
\* host id different from this machine's is not returned as the client
\* token, by that call or by the request that follows it, whether the token
\* write fails or not.
C29_NeverReturned ==
    [][\A t \in DiskTokens :
          FoundForeign(t) => (~ReturnedClient(t) /\ ~ReturnedClient(t)')]_vars

-----------------------------------------------------------------------------
(* Properties of read fault injection *)

\* the last call ran while a read fault was injected for its kind, and the
\* token file held a valid token
FaultCall == Called /\ InStr(Letter, READ_CHAOS) /\ FoundValid
\* the last call returned a token other than the stored one and left it in
\* the token file
Overwritten ==
    /\ last.ret # TokenOn(last.file.data)
    /\ last.ret # Raised
    /\ Len(last.ret) = TOKEN_LENGTH
    /\ Readable(FileNow)
    /\ TokenOn(FileNow.data) = last.ret

\* C30 (as stated): while a read fault is injected for its kind, a call of
\* _saved_token treats a valid token file as absent: it returns a new token
\* different from the stored one and overwrites the file with it.
C30_FaultOverwrites == FaultCall => Overwritten

\* the tokens a run may generate
FreshTokens == {_random_token(n) : n \in 1..MaxTokens}
\* the last call, under a read fault, replaced a valid token by t
ReplacedUnderFault(t) == FaultCall /\ Overwritten /\ last.ret = t
\* the last call, under no read fault, found t in its token file, beside a
\* sidecar that names no other machine
FoundWithoutFault(t) ==
    /\ Called
    /\ ~InStr(Letter, READ_CHAOS)
    /\ Readable(last.file)
    /\ TokenOn(last.file.data) = t
    /\ HostAgrees

\* C30 (amended): while a read fault is injected for its kind, a call of
\* _saved_token treats a valid token file as absent; when the file can be
\* written and no write fault is injected for the kind, it returns a new
\* token different from the stored one and overwrites the file with it, and
\* a later call without the read fault that finds this token in the file
\* (for the client token: beside a sidecar that names no other machine)
\* returns it.
C30_FaultOverwritesWhenWritten ==
    /\ []((FaultCall /\ Writable(last.file) /\ ~InStr(Letter, WRITE_CHAOS))
              => Overwritten)
    /\ \A t \in FreshTokens :
          [](ReplacedUnderFault(t) => [](FoundWithoutFault(t) => last.ret = t))

\* under a read fault a valid token was replaced by a fresh one, which the
\* call returned and the file holds
C30_Witness ==
    /\ FaultCall
    /\ last.file.data = Tok22
    /\ last.ret = _random_token(urandom)
    /\ last.status = {WRITE_SUCCESS}
    /\ FileNow.data = last.ret

-----------------------------------------------------------------------------
(* Properties of the deferred-write list *)

\* the entries of a DEFERRED list for a path and a kind
PendingFor(deferred, fpath, what) ==
    {i \in DOMAIN deferred : deferred[i][2] = fpath /\ deferred[i][4] = what}
\* no two entries of DEFERRED have the same path and kind
OnePerPathAndKind ==
    \A i, j \in DOMAIN DEFERRED :
        (DEFERRED[i][2] = DEFERRED[j][2] /\ DEFERRED[i][4] = DEFERRED[j][4])
        => i = j
\* the kind a call site's token is deferred under
WhatOf(site) ==
    IF site.fn = "client_token" THEN "client token" ELSE "environment token"
\* the step is a request of a site whose token write is pending
RequestOfPending(site) ==
    /\ PendingFor(DEFERRED, SitePath(site), WhatOf(site)) # {}
    /\ last'.site = site
    /\ last'.deferred = DEFERRED

\* C31: DEFERRED holds at most one entry per (file path, kind) in every
\* reachable state, and a request for a (path, kind) whose write is pending
\* returns the pending token, adds no entry and draws no token.
C31_OnePending ==
    /\ []OnePerPathAndKind
    /\ [][\A site \in sites :
            RequestOfPending(site)
            => /\ \A i \in PendingFor(DEFERRED, SitePath(site), WhatOf(site)) :
                     last'.ret = DEFERRED[i][3]
               /\ DEFERRED' = DEFERRED
               /\ urandom' = urandom]_vars

\* a second request for a token whose write is pending returned the pending
\* token, while the write of another environment's token is pending too
C31_Witness ==
    /\ Called
    /\ Len(DEFERRED) = 2
    /\ PendingFor(last.deferred, SitePath(last.site), WhatOf(last.site)) # {}
    /\ last.deferred = DEFERRED
    /\ last.ret = last.prev
    /\ \E i \in DOMAIN DEFERRED : DEFERRED[i][3] = last.ret

-----------------------------------------------------------------------------
(* Properties of abnormal termination *)

\* the process was killed while the write of token t was deferred
Dropped(t) ==
    /\ phase = "killed"
    /\ \E i \in DOMAIN DEFERRED : DEFERRED[i][3] = t
\* some file holds the token t
OnDisk(t) ==
    \E p \in AllPaths : fs[p].t = "file" /\ TokenOn(fs[p].data) = t
\* a running process holds t in DEFERRED
Recovered(t) ==
    phase = "running" /\ \E i \in DOMAIN DEFERRED : DEFERRED[i][3] = t
\* the last call returned a token that was drawn, other than t
ReturnedFresh(t) == last.ret \in FreshTokens \ {t}

\* C32: when the process is killed while a token write is deferred, neither
\* the token file nor its directory exists at that point, the token is never
\* found in any file afterwards, and no later process holds or returns it:
\* a later call that returns a token returns a freshly drawn one.
C32_DroppedOnKill ==
    /\ [](phase = "killed" =>
            \A i \in DOMAIN DEFERRED :
                /\ ~exists(fs, DEFERRED[i][2])
                /\ ~exists(fs, dirname(DEFERRED[i][2])))
    /\ \A t \in FreshTokens :
          [](Dropped(t) =>
                [](/\ ~OnDisk(t)
                   /\ ~Recovered(t)
                   /\ (Called /\ last.ret \notin {"", Raised})
                          => ReturnedFresh(t)))

\* the process was killed while a token write was deferred, after the
\* environment's directory was created: the exit hook would have written it
C32_Witness ==
    /\ phase = "killed"
    /\ Len(DEFERRED) = 1
    /\ isdir(fs, DEFERRED[1][1])
    /\ ~exists(fs, DEFERRED[1][2])
    /\ DEFERRED[1][3] = _random_token(1)

-----------------------------------------------------------------------------
(* Properties of processes that race to create a token file *)

\* every racer found the token file missing or empty, generated a token and
\* wrote it, and every process has finished what it started
AllCreated ==
    /\ procs # NoProcs
    /\ \A i \in Racers : procs[i].made # ""
RaceOver == AllCreated /\ \A i \in Racers : procs[i].at = "done" \/ procs[i].later
\* the tokens the racers generated
Made == {procs[i].made : i \in Racers}
\* the token file holds one of the racers' tokens, whole and nothing else
HoldsOneInFull ==
    /\ isfile(fs, RacePath)
    /\ fs[RacePath].data \in Made
\* a process started after the race has returned
LaterReturned(i) == procs[i].later /\ procs[i].at = "done"

\* C33 (as stated): once two processes that concurrently created the same
\* missing token file have both finished, the file holds exactly one of the
\* two generated tokens in full, and every process started afterwards
\* returns that token and leaves the file as it is.
C33_EventuallyStable ==
    RaceOver =>
        /\ HoldsOneInFull
        /\ \A i \in Racers :
              LaterReturned(i) => procs[i].ret = fs[RacePath].data

\* the sidecar of the raced path, if the path has one, names no other machine
SidecarAgrees ==
    node_tie =>
        HostOn(NodeAt(fs, RacePath \o "_host")) \in {"", Or(_get_node_str, "")}

\* C33 (amended): once two processes that concurrently created the same
\* missing token file have both finished, the file holds exactly one of the
\* two generated tokens in full; unless the sidecar of a client token still
\* names another machine, every process started afterwards returns the token
\* the file holds, which is one of the two, and leaves the file as it is.
C33_StableWhenHostAgrees ==
    /\ [](RaceOver =>
            /\ (\A i \in Racers : ~procs[i].later) => HoldsOneInFull
            /\ SidecarAgrees =>
                  /\ HoldsOneInFull
                  /\ \A i \in Racers :
                        LaterReturned(i) => procs[i].ret = fs[RacePath].data)
    /\ [][(RaceOver /\ SidecarAgrees) => fs'[RacePath] = fs[RacePath]]_vars

\* both racers wrote a token, the second write replaced the first, and a
\* process started afterwards returned the token the file holds
C33_Witness ==
    /\ RaceOver
    /\ Cardinality(Made) = NRacers
    /\ HoldsOneInFull
    /\ \E i \in Racers :
          /\ LaterReturned(i)
          /\ procs[i].ret = fs[RacePath].data
          /\ procs[i].ret # procs[i].made

-----------------------------------------------------------------------------
(* Properties of a machine whose node id cannot be determined *)

\* the last call was a client-token call on a machine without a node id
NoNodeCall == Called /\ last.site = ClientSite /\ node = 0
\* the call found no token file and no sidecar
FoundNothing == last.file.t = "none" /\ last.host.t = "none"
\* the call found a valid token with no host id recorded, neither in the
\* sidecar nor on the token's line
FoundUntied ==
    /\ FoundValid
    /\ Len(split1(SingleLine(strip(last.file.data)))) = 1
    /\ HostOn(last.host) = ""
\* the token was generated and is in the file, and the sidecar is empty
PersistedUntied ==
    /\ Len(last.ret) = TOKEN_LENGTH
    /\ last.ret = _random_token(urandom)
    /\ FileNow.t = "file"
    /\ FileNow.data = last.ret
    /\ HostNow.t = "file"
    /\ HostNow.data = ""

\* C34 (as stated): when the node id cannot be determined, a client-token
\* call that finds no token generates one and persists it, writes the
\* sidecar with empty content, and the next read returns the same token; a
\* call that finds a valid token with no host id recorded returns it.
C34_NoNodeId ==
    /\ (NoNodeCall /\ FoundNothing) => (PersistedUntied /\ ReadAgain = last.ret)
    /\ (NoNodeCall /\ FoundUntied) => last.ret = TokenOn(last.file.data)

\* the configuration directory takes new files, and no fault is injected for
\* the writes or the reads of the client token
ConfigWritable == fs[CONFIG_DIR].mode = "rw" /\ ~InStr("c", WRITE_CHAOS)
ClientReadable == ~InStr("c", READ_CHAOS)

\* C34 (amended): when the node id cannot be determined, a client-token call
\* that finds no token generates one; when the configuration directory can be
\* written and no write fault is injected, the token is persisted and the
\* sidecar is written with empty content, and, with no read fault injected,
\* the next read returns the same token.  With no read fault injected, a call
\* that finds a valid token with no host id recorded returns it and leaves
\* the token file as it is.
C34_NoNodeIdWhenWritten ==
    /\ (NoNodeCall /\ FoundNothing /\ ConfigWritable)
       => /\ PersistedUntied
          /\ ClientReadable => ReadAgain = last.ret
    /\ (NoNodeCall /\ FoundUntied /\ ClientReadable)
       => /\ last.ret = TokenOn(last.file.data)
          /\ FileNow = last.file

\* without a node id a token was generated and persisted beside an empty
\* sidecar, and the call after it found the same token and returned it
C34_Witness ==
    /\ NoNodeCall
    /\ FoundUntied
    /\ last.host = FileNode("", "rw")
    /\ last.file.data = _random_token(1)
    /\ last.ret = _random_token(1)
    /\ last.prev = last.ret
    /\ urandom = 1

-----------------------------------------------------------------------------
(* Properties of the keyring entries *)

\* the credential a keyring entry decodes to
EntryCredential(rec) ==
    IF ApiKeyOf(JStr(rec)).ok
    THEN _jwt_to_token(ApiKeyOf(JStr(rec)).v)
    ELSE [token |-> None, exp |-> 0]
\* the entries of a keyring that decode to a valid credential
ValidEntries(keyring) ==
    {i \in DOMAIN keyring : Truthy(EntryCredential(keyring[i][2]).token)}
\* the token of the valid entry that expires last, None without one
LatestToken(keyring) ==
    IF ValidEntries(keyring) = {} THEN None
    ELSE EntryCredential(keyring[
             CHOOSE i \in ValidEntries(keyring) :
                 \A j \in ValidEntries(keyring) :
                     EntryCredential(keyring[j][2]).exp <= EntryCredential(keyring[i][2]).exp
         ][2]).token
\* the last call ran the body of anaconda_auth_token with the environment
\* variable unset and the keyring file holding the keyring
KeyringCall(keyring) ==
    /\ called.key = Key("anaconda_auth_token")
    /\ (Key("anaconda_auth_token") \in called.new \/ called.exc # "")
    /\ ~Truthy(Getenv("ANACONDA_AUTH_API_KEY"))
    /\ Readable(fs[KeyringPath])
    /\ fs[KeyringPath].data = TextOf(keyring)

\* C35: anaconda_auth_token returns the token of the keyring entry with the
\* greatest expiration among the entries that decode to a valid credential,
\* whatever the order of the entries, and None when no entry does.
C35_LatestExpiry ==
    \A keyring \in Keyrings :
        KeyringCall(keyring)
        => (called.exc = "" /\ called.val = LatestToken(keyring))

-----------------------------------------------------------------------------
(* C36 *)

\* C36: a call of a cached function never fails with a missing-key error,
\* also when _cache_clear, with or without function names, runs in another
\* thread between the computation and the return.
C36_NeverKeyError == \A x \in returned : x[2] # KeyError

-----------------------------------------------------------------------------
(* C37 *)

\* a step is a call of patch.main that is not the first of the process
LaterMain == Context.calls >= 1 /\ Context'.calls = Context.calls + 1
SamePatch ==
    /\ Context'.user_agent = Context.user_agent
    /\ Context'._old_user_agent = Context._old_user_agent
    /\ Context'.parameter_names = Context.parameter_names
OneTokenString == Context.ua \in {"", CondaUserAgent, CondaUserAgent \o " aau/" \o __version__}

\* C37: the second and every later call of patch.main in a process returns
\* False and leaves Context.user_agent, _old_user_agent and the parameter
\* names as they were, so the user agent never carries the token string twice.
C37_PatchedOnce == [][LaterMain => (Context'.ret = "False" /\ SamePatch)]_vars /\ []OneTokenString
C37_Witness ==
    /\ Context.calls >= 2
    /\ Context.ret = "False"
    /\ Context._aau_initialized = "False"
    /\ Context.ua = CondaUserAgent \o " aau/" \o __version__
    /\ Len(Context.parameter_names) = 4

-----------------------------------------------------------------------------
(* C38, C39 *)

\* the last run of the installer had --status and neither --enable nor --disable
StatusOnly == sp_dir.installs > 0 /\ "--status" \in sp_dir.argv
TargetKept == sp_dir.files.pfile = sp_dir.before

\* C38: run with --status only, the installer never modifies the patch
\* target file, whatever its state.
C38_StatusReadOnly == StatusOnly => TargetKept

\* a step of the last run failed
StepFailed == sp_dir.installs > 0 /\ sp_dir.failed # ""
TargetIntact == sp_dir.files.pfile # NoFile /\ TargetKept

=============================================================================
